---- MODULE Spec2Model ----
(***************************************************************************)
(* Model of github-issues-checker: the per-issue state machine             *)
(* process_issue (src/check_issues.py) together with the gateways it       *)
(* calls: GitHubHandler (src/github_handler.py), GitHandler                *)
(* (src/git_handler.py) and CopilotHandler (src/copilot_handler.py),       *)
(* specification Spec; and the run around it, main and process_repository  *)
(* with Config (src/config.py), specification RunSpec; run after run over  *)
(* the same forge, specification RunsSpec; and the label parser on texts   *)
(* of a few lines, specification ParseSpec.                                *)
(*                                                                         *)
(* Texts (Python str) are sequences of tokens.  A token is either one      *)
(* character that the code inspects ("#", "-", "*", "(", the full-width    *)
(* parenthesis "FW(", the newline "NL", the blank "SP") or a run of        *)
(* characters the code never looks into ("bug", "LABELS_H", ...).  The     *)
(* sentinel INSUFFICIENT_INFO is the two tokens "INSUFFICIENT_" "INFO".    *)
(***************************************************************************)
EXTENDS Integers, Sequences, FiniteSets, TLC

(***************************************************************************)
(* Bounds of the model.                                                    *)
(***************************************************************************)
\* longest comment history an issue starts with
MaxHistory == 2
\* most gateway faults (forge error, raised exception, git failure,
\* assistant timeout) injected into one process_issue call
MaxFaults == 2
\* most issues a repository of the forge holds
MaxIssues == 2
\* most lines of an analysis text handed to the label parser
MaxLines == 3

(***************************************************************************)
(* Python str operations, on token sequences.                              *)
(***************************************************************************)
\* s[i:i+len(p)] == p
MatchAt(s, p, i) ==
    /\ i >= 1
    /\ i + Len(p) - 1 <= Len(s)
    /\ \A k \in 1..Len(p) : s[i + k - 1] = p[k]

\* p in s   (p non-empty)
Contains(s, p) == \E i \in 1..Len(s) : MatchAt(s, p, i)

\* s.find(p) + 1, and 0 when p does not occur
Find(s, p) ==
    IF Contains(s, p)
    THEN CHOOSE i \in 1..Len(s) :
            MatchAt(s, p, i) /\ \A j \in 1..(i - 1) : ~MatchAt(s, p, j)
    ELSE 0

\* s[i-1:]
Drop(s, i) == IF i > Len(s) THEN <<>> ELSE SubSeq(s, i, Len(s))

\* s.split(p)[0]
Before(s, p) == IF Find(s, p) = 0 THEN s ELSE SubSeq(s, 1, Find(s, p) - 1)

\* s.split(p, 1)[1]   (only used when p in s)
After(s, p) == Drop(s, Find(s, p) + Len(p))

\* s.startswith(p)
StartsWith(s, p) == MatchAt(s, p, 1)

\* s.replace(p, r): occurrences are found left to right, without overlap,
\* in s itself; the result is not scanned again
RECURSIVE Replace(_, _, _)
Replace(s, p, r) ==
    IF s = <<>> THEN <<>>
    ELSE IF MatchAt(s, p, 1) THEN r \o Replace(Drop(s, Len(p) + 1), p, r)
    ELSE <<Head(s)>> \o Replace(Tail(s), p, r)

IsSpace(c) == c \in {"SP", "NL"}

RECURSIVE LStrip(_)
LStrip(s) == IF s # <<>> /\ IsSpace(Head(s)) THEN LStrip(Tail(s)) ELSE s

RECURSIVE RStrip(_)
RStrip(s) ==
    IF s # <<>> /\ IsSpace(s[Len(s)]) THEN RStrip(SubSeq(s, 1, Len(s) - 1)) ELSE s

\* s.strip()
Strip(s) == RStrip(LStrip(s))

\* s.split('\n')
RECURSIVE SplitLines(_)
SplitLines(s) ==
    IF Find(s, <<"NL">>) = 0 THEN <<s>>
    ELSE <<Before(s, <<"NL">>)>> \o SplitLines(After(s, <<"NL">>))

(***************************************************************************)
(* Fixed strings of the program.                                           *)
(***************************************************************************)
BOT_PROCESSED_LABEL == <<"bot-processed">>
NEEDS_MORE_INFO == <<"needs-more-info">>
SENTINEL == <<"INSUFFICIENT_", "INFO">>
ANALYSIS_MARKER == <<"#", "#", "SP", "ROBOT_ANALYSIS_RESULT">>
LABELS_HEADING == <<"#", "#", "SP", "LABELS_H">>
LABELS_HEADING_NOSPACE == <<"#", "#", "LABELS_H">>
FOOTER_RULE == <<"-", "-", "-">>
GENERATED_NOTE == <<"*", "GENERATED_BY_COPILOT_SDK", "*">>
NO_CHANGES_COMMENT == <<"WARN", "SP", "NO_CODE_CHANGES_WERE_NECESSARY">>
EMPTY_RESPONSE_TEXT == <<"NO_ANALYSIS_RESULT">>
TIMEOUT_TEXT == <<"ANALYSIS_TIMED_OUT">>
ERROR_TEXT == <<"ANALYSIS_ERROR">>

\* the analysis comment of process_issue, step 2
AnalysisComment(analysis_text) ==
    ANALYSIS_MARKER \o <<"NL", "NL">> \o analysis_text
        \o <<"NL", "NL">> \o FOOTER_RULE \o <<"NL">> \o GENERATED_NOTE \o <<"NL">>

\* the halt comment of process_issue on insufficient information
HaltComment(analysis_text) ==
    <<"#", "#", "SP", "HALTED_FOR_LACK_OF_INFORMATION", "NL", "NL">> \o analysis_text
        \o <<"NL", "NL">> \o FOOTER_RULE \o <<"NL">>
        \o <<"*", "*", "NEXT_STEP", "*", "*", "SP", "ADD_THE_INFORMATION_TO_RETRY", "NL", "NL">>
        \o GENERATED_NOTE \o <<"NL">>

\* the branch name process_issue derives from the issue number, step 5
BranchName(number) == <<"fix/issue-", ToString(number)>>

\* the PR-link comment of process_issue, step 9
PrLinkComment(pr_url) == <<"DONE", "SP", "PR_CREATED", "SP">> \o pr_url

\* the section process_issue appends to the task body for new user comments
RECURSIVE NewCommentsText(_)
NewCommentsText(cs) ==
    IF cs = <<>> THEN <<>>
    ELSE <<"NL", "#", "#", "#", "SP">> \o Head(cs).author \o <<"SP", "(">>
            \o Head(cs).created_at \o <<")", ":", "NL">> \o Head(cs).body \o <<"NL">>
            \o NewCommentsText(Tail(cs))

(***************************************************************************)
(* Label parsing: the loop that CopilotHandler._parse_analysis and         *)
(* GitHubHandler.get_existing_analysis both run over the analysis lines.   *)
(***************************************************************************)
\* the label of one bullet line, <<>> when the line yields none
LabelOfBullet(line) ==
    LET label0 == Strip(Drop(Strip(line), 2))
        label1 == Replace(label0, <<"*", "*">>, <<>>)
        label2 == IF Contains(label1, <<"FW(">>) THEN Strip(Before(label1, <<"FW(">>))
                  ELSE IF Contains(label1, <<"(">>) THEN Strip(Before(label1, <<"(">>))
                  ELSE label1
    IN  IF label0 = <<>> THEN <<>> ELSE label2

RECURSIVE ParseLabelLines(_, _)
ParseLabelLines(lines, in_labels_section) ==
    IF lines = <<>> THEN <<>>
    ELSE LET line == Head(lines)
         IN  IF Contains(line, LABELS_HEADING) \/ Contains(line, LABELS_HEADING_NOSPACE)
             THEN ParseLabelLines(Tail(lines), TRUE)
             ELSE LET in_section == IF StartsWith(line, <<"#", "#">>) THEN FALSE
                                    ELSE in_labels_section
                      label == LabelOfBullet(line)
                      found == IF in_section /\ StartsWith(Strip(line), <<"-">>)
                                    /\ label # <<>>
                               THEN <<label>> ELSE <<>>
                  IN  found \o ParseLabelLines(Tail(lines), in_section)

\* CopilotHandler._parse_analysis: result["suggested_labels"]
parse_analysis(analysis) == ParseLabelLines(SplitLines(analysis), FALSE)

(***************************************************************************)
(* Dictionaries: d.get(key, default).                                      *)
(***************************************************************************)
DictGet(d, key, default) == IF key \in DOMAIN d THEN d[key] ELSE default

(***************************************************************************)
(* Gateway outcomes.  A forge call ends "ok", with a GithubException       *)
(* ("gh", which the handler catches) or with another exception ("exc",     *)
(* a transport error, which it does not catch).                            *)
(***************************************************************************)
ForgeOutcome == {"ok", "gh", "exc"}

\* number of faults among the outcomes of the calls that were made
FaultCount(outs) == Cardinality({i \in DOMAIN outs : outs[i] # "ok"})

(***************************************************************************)
(* GitHubHandler                                                           *)
(***************************************************************************)
\* index of the comment get_existing_analysis takes, 0 when there is none
AnalysisCommentIndex(comments) ==
    IF \E i \in 1..Len(comments) : Contains(comments[i].body, ANALYSIS_MARKER)
    THEN CHOOSE i \in 1..Len(comments) :
            /\ Contains(comments[i].body, ANALYSIS_MARKER)
            /\ \A j \in 1..(i - 1) : ~Contains(comments[j].body, ANALYSIS_MARKER)
    ELSE 0

\* the dict get_existing_analysis builds from a comment body
ExistingAnalysisOf(comment_body) ==
    LET body1 == IF Contains(comment_body, ANALYSIS_MARKER)
                 THEN After(comment_body, ANALYSIS_MARKER) ELSE comment_body
        body2 == IF Contains(body1, FOOTER_RULE) THEN Before(body1, FOOTER_RULE) ELSE body1
        analysis_text == Strip(body2)
    IN  [analysis |-> analysis_text,
         suggested_labels |-> ParseLabelLines(SplitLines(analysis_text), FALSE)]

\* get_existing_analysis that overlooks the analysis comment
get_existing_analysis_never_found(iss, o) ==
    IF o = "exc" THEN [exc |-> TRUE, found |-> FALSE, view |-> [none |-> TRUE]]
    ELSE [exc |-> FALSE, found |-> FALSE, view |-> [none |-> TRUE]]

\* get_existing_analysis(issue); o is the outcome of issue.get_comments()
get_existing_analysis(iss, o) ==
    LET i == AnalysisCommentIndex(iss.comments)
    IN  IF o = "exc" THEN [exc |-> TRUE, found |-> FALSE, view |-> [none |-> TRUE]]
        ELSE IF o = "gh" \/ i = 0
             THEN [exc |-> FALSE, found |-> FALSE, view |-> [none |-> TRUE]]
        ELSE [exc |-> FALSE, found |-> TRUE, view |-> ExistingAnalysisOf(iss.comments[i].body)]

\* get_unprocessed_issues that lists the issues whatever labels they carry
get_unprocessed_issues_ignores_label(iss, processed_label, o) ==
    IF o = "gh" THEN <<>>
    ELSE IF iss.state = "open" /\ ~iss.pull_request
         THEN <<iss.number>> ELSE <<>>

\* get_unprocessed_issues that does not skip pull requests
get_unprocessed_issues_with_pull_requests(iss, processed_label, o) ==
    IF o = "gh" THEN <<>>
    ELSE IF iss.state = "open" /\ processed_label \notin iss.labels
         THEN <<iss.number>> ELSE <<>>

\* get_unprocessed_issues(repo_name, processed_label): the issue is listed
\* when it is open, is no pull request and lacks the label
get_unprocessed_issues(iss, processed_label, o) ==
    IF o = "gh" THEN <<>>
    ELSE IF iss.state = "open" /\ ~iss.pull_request /\ processed_label \notin iss.labels
         THEN <<iss.number>> ELSE <<>>

\* add_comment(issue, comment); o is the outcome of issue.create_comment
add_comment(iss, comment, now, o) ==
    IF o = "exc" THEN [exc |-> TRUE, ret |-> FALSE, issue |-> iss]
    ELSE IF o = "gh" THEN [exc |-> FALSE, ret |-> FALSE, issue |-> iss]
    ELSE [exc |-> FALSE, ret |-> TRUE,
          issue |-> [iss EXCEPT !.comments =
                        Append(@, [author |-> <<"bot">>, created_at |-> now, body |-> comment])]]

\* get_repository_labels(repo_name); o is the outcome of repo.get_labels()
get_repository_labels(rp, o) ==
    IF o = "exc" THEN [exc |-> TRUE, ret |-> {}]
    ELSE IF o = "gh" THEN [exc |-> FALSE, ret |-> {}]
    ELSE [exc |-> FALSE, ret |-> rp.labels]

\* issue.add_to_labels(label) on the forge: the forge creates a label that
\* the repository lacks
AddToLabels(iss, rp, label) ==
    [issue |-> [iss EXCEPT !.labels = @ \cup {label}],
     repo |-> [rp EXCEPT !.labels = @ \cup {label}]]

\* add_label that reports success without attaching the label
add_label_not_attached(iss, rp, label, o1, o2, o3) ==
    IF o1 = "exc" \/ o3 = "exc"
    THEN [exc |-> TRUE, ret |-> FALSE, issue |-> iss, repo |-> rp, made |-> {1, 3}]
    ELSE [exc |-> FALSE, ret |-> TRUE, issue |-> iss, repo |-> rp, made |-> {1, 3}]

\* add_label that never looks the label up: it attaches whatever it is given
add_label_no_lookup(iss, rp, label, o1, o2, o3) ==
    IF o3 = "exc" THEN [exc |-> TRUE, ret |-> FALSE, issue |-> iss, repo |-> rp, made |-> {3}]
    ELSE IF o3 = "gh"
         THEN [exc |-> FALSE, ret |-> FALSE, issue |-> iss, repo |-> rp, made |-> {3}]
    ELSE [exc |-> FALSE, ret |-> TRUE,
          issue |-> [iss EXCEPT !.labels = @ \cup {label}],
          repo |-> [rp EXCEPT !.labels = @ \cup {label}], made |-> {3}]

\* add_label(issue, label); o1, o2, o3 are the outcomes of repo.get_label,
\* repo.create_label and issue.add_to_labels.  made = the forge calls made.
add_label(iss, rp, label, o1, o2, o3) ==
    LET unchanged(ret, exc, made) ==
            [exc |-> exc, ret |-> ret, issue |-> iss, repo |-> rp, made |-> made]
        attach(rp1, made) ==
            IF o3 = "exc" THEN [exc |-> TRUE, ret |-> FALSE, issue |-> iss, repo |-> rp1,
                                made |-> made \cup {3}]
            ELSE IF o3 = "gh" THEN [exc |-> FALSE, ret |-> FALSE, issue |-> iss, repo |-> rp1,
                                    made |-> made \cup {3}]
            ELSE [exc |-> FALSE, ret |-> TRUE,
                  issue |-> AddToLabels(iss, rp1, label).issue,
                  repo |-> AddToLabels(iss, rp1, label).repo,
                  made |-> made \cup {3}]
    IN  IF o1 = "exc" THEN unchanged(FALSE, TRUE, {1})
        ELSE IF o1 = "ok" /\ label \in rp.labels THEN attach(rp, {1})
        ELSE IF label = <<"bot-processed">>
             THEN IF o2 = "exc" THEN unchanged(FALSE, TRUE, {1, 2})
                  ELSE IF o2 = "gh" \/ label \in rp.labels THEN unchanged(FALSE, FALSE, {1, 2})
                  ELSE attach([rp EXCEPT !.labels = @ \cup {label}], {1, 2})
        ELSE unchanged(FALSE, FALSE, {1})

\* create_branch(repo_name, branch_name): the remote branch fix/issue-<n>
create_branch(rp, o) ==
    IF o = "exc" THEN [exc |-> TRUE, ret |-> FALSE, repo |-> rp]
    ELSE IF o = "gh" THEN [exc |-> FALSE, ret |-> FALSE, repo |-> rp]
    ELSE IF rp.branch # "none" THEN [exc |-> FALSE, ret |-> TRUE, repo |-> rp]
    ELSE [exc |-> FALSE, ret |-> TRUE, repo |-> [rp EXCEPT !.branch = "created"]]

\* create_pull_request that reports a URL although the forge refused the pull
\* request
create_pull_request_url_on_error(rp, o) ==
    IF o = "exc" THEN [exc |-> TRUE, ret |-> FALSE, repo |-> rp]
    ELSE IF o = "gh" THEN [exc |-> FALSE, ret |-> TRUE, repo |-> rp]
    ELSE [exc |-> FALSE, ret |-> TRUE, repo |-> [rp EXCEPT !.pulls = @ + 1]]

\* create_pull_request(repo_name, title, body, head_branch)
create_pull_request(rp, o) ==
    IF o = "exc" THEN [exc |-> TRUE, ret |-> FALSE, repo |-> rp]
    ELSE IF o = "gh" THEN [exc |-> FALSE, ret |-> FALSE, repo |-> rp]
    ELSE [exc |-> FALSE, ret |-> TRUE, repo |-> [rp EXCEPT !.pulls = @ + 1]]

(***************************************************************************)
(* GitHandler.  The working copy is [exists, dirty, commits]: dirty = the  *)
(* assistant edited files that are not committed yet.  A git command ends  *)
(* "ok" or "fail" (non-zero exit, timeout); _run_git_command never raises. *)
(***************************************************************************)
GitOutcome == {"ok", "fail"}

\* clone_repository(repo_name); o_rm is the outcome of shutil.rmtree on a
\* left-over directory, o the outcome of git clone (both attempts)
clone_repository(w, o_rm, o) ==
    IF w.exists /\ o_rm = "exc"
    THEN [exc |-> TRUE, ret |-> FALSE, wc |-> w, made |-> {1}]
    ELSE IF o = "fail"
         THEN [exc |-> FALSE, ret |-> FALSE,
               wc |-> [exists |-> FALSE, dirty |-> FALSE, commits |-> 0],
               made |-> (IF w.exists THEN {1} ELSE {}) \cup {2}]
    ELSE [exc |-> FALSE, ret |-> TRUE,
          wc |-> [exists |-> TRUE, dirty |-> FALSE, commits |-> 0],
          made |-> (IF w.exists THEN {1} ELSE {}) \cup {2}]

\* checkout_branch(repo_path, branch, create=True)
checkout_branch(w, o) == o = "ok"

\* commit_changes without the check for staged changes: an empty commit is
\* made and reported as success
commit_changes_allow_empty(w, o_add, o_diff, o_commit) ==
    IF o_add = "fail"
    THEN [ret |-> FALSE, wc |-> w, staged |-> "unknown", made |-> {1}]
    ELSE IF o_commit = "fail"
         THEN [ret |-> FALSE, wc |-> w,
               staged |-> IF w.dirty THEN "some" ELSE "zero", made |-> {1, 3}]
    ELSE [ret |-> TRUE, wc |-> [w EXCEPT !.dirty = FALSE, !.commits = @ + 1],
          staged |-> IF w.dirty THEN "some" ELSE "zero", made |-> {1, 3}]

\* commit_changes(repo_path, message); o_add, o_diff, o_commit are the
\* outcomes of git add -A, git diff --staged --quiet and git commit.
\* staged = what the diff would show: "zero" or "some" staged changes, and
\* "unknown" when staging failed.
commit_changes(w, o_add, o_diff, o_commit) ==
    IF o_add = "fail"
    THEN [ret |-> FALSE, wc |-> w, staged |-> "unknown", made |-> {1}]
    ELSE IF o_diff = "ok" /\ ~w.dirty
         THEN [ret |-> FALSE, wc |-> w, staged |-> "zero", made |-> {1, 2}]
    ELSE IF o_commit = "fail" \/ ~w.dirty
         THEN [ret |-> FALSE, wc |-> w,
               staged |-> IF w.dirty THEN "some" ELSE "zero", made |-> {1, 2, 3}]
    ELSE [ret |-> TRUE, wc |-> [w EXCEPT !.dirty = FALSE, !.commits = @ + 1],
          staged |-> "some", made |-> {1, 2, 3}]

\* push_branch(repo_path, branch)
push_branch(w, rp, o) ==
    IF o = "fail" THEN [ret |-> FALSE, repo |-> rp]
    ELSE [ret |-> TRUE, repo |-> [rp EXCEPT !.branch = "pushed"]]

\* cleanup_repository that leaves the directory where it is
cleanup_repository_keeps_directory(w, o) ==
    IF ~w.exists THEN [exc |-> FALSE, wc |-> w, made |-> {}]
    ELSE IF o = "exc" THEN [exc |-> TRUE, wc |-> w, made |-> {1}]
    ELSE [exc |-> FALSE, wc |-> w, made |-> {1}]

\* cleanup_repository(repo_path); o is the outcome of shutil.rmtree
cleanup_repository(w, o) ==
    IF ~w.exists THEN [exc |-> FALSE, wc |-> w, made |-> {}]
    ELSE IF o = "exc" THEN [exc |-> TRUE, wc |-> w, made |-> {1}]
    ELSE [exc |-> FALSE, wc |-> [w EXCEPT !.exists = FALSE], made |-> {1}]

(***************************************************************************)
(* CopilotHandler.  One prompt/response exchange ends with a response that *)
(* has content, with an empty response, with a timeout or with an error.   *)
(***************************************************************************)
ResponseKind == {"content", "empty", "timeout", "error"}

\* the sessions one call of analyze_issue, implement_fix or
\* implement_fix_with_retry leaves open: create_session is the first
\* statement of the try, and session.destroy() is the statement after
\* send_and_wait, which a timeout or an error of the exchange skips
SessionsLeftOpen(started, response) ==
    IF ~started THEN 0
    ELSE IF response.kind \in {"timeout", "error"} THEN 1
    ELSE 0

\* analyze_issue that leaves completed set when it finds the sentinel
analyze_issue_keeps_completed(started, response) ==
    LET result0 == [analysis |-> <<>>, suggested_labels |-> <<>>, action_plan |-> <<>>,
                    completed |-> FALSE, insufficient_info |-> FALSE]
    IN  IF ~started THEN [exc |-> TRUE, result |-> result0]
        ELSE IF response.kind = "content"
             THEN [exc |-> FALSE,
                   result |-> [result0 EXCEPT
                                 !.analysis = response.content,
                                 !.completed = TRUE,
                                 !.insufficient_info = Contains(response.content, SENTINEL),
                                 !.suggested_labels = parse_analysis(response.content)]]
        ELSE [exc |-> FALSE, result |-> [result0 EXCEPT !.analysis = ERROR_TEXT]]

\* analyze_issue(issue_data, available_labels)
analyze_issue(started, response) ==
    LET result0 == [analysis |-> <<>>, suggested_labels |-> <<>>, action_plan |-> <<>>,
                    completed |-> FALSE, insufficient_info |-> FALSE]
        result1 == IF response.kind = "content"
                   THEN IF Contains(response.content, SENTINEL)
                        THEN [result0 EXCEPT !.analysis = response.content,
                                             !.insufficient_info = TRUE,
                                             !.completed = FALSE]
                        ELSE [result0 EXCEPT !.analysis = response.content,
                                             !.completed = TRUE]
                   ELSE [result0 EXCEPT !.analysis = EMPTY_RESPONSE_TEXT,
                                        !.completed = FALSE]
    IN  IF ~started THEN [exc |-> TRUE, result |-> result0]
        ELSE IF response.kind = "timeout"
             THEN [exc |-> FALSE,
                   result |-> [result0 EXCEPT !.analysis = TIMEOUT_TEXT, !.completed = FALSE]]
        ELSE IF response.kind = "error"
             THEN [exc |-> FALSE,
                   result |-> [result0 EXCEPT !.analysis = ERROR_TEXT, !.completed = FALSE]]
        ELSE [exc |-> FALSE,
              result |-> [result1 EXCEPT !.suggested_labels = parse_analysis(result1.analysis)]]

\* implement_fix that lets the timeout of the exchange escape
implement_fix_timeout_escapes(started, response) ==
    IF ~started \/ response.kind = "timeout"
    THEN [exc |-> TRUE, success |-> FALSE, message |-> <<>>]
    ELSE IF response.kind = "content"
         THEN [exc |-> FALSE, success |-> TRUE, message |-> response.content]
    ELSE [exc |-> FALSE, success |-> FALSE, message |-> <<"IMPLEMENTATION_FAILED">>]

\* implement_fix(issue_data, repo_path)
implement_fix(started, response) ==
    IF ~started THEN [exc |-> TRUE, success |-> FALSE, message |-> <<>>]
    ELSE IF response.kind = "content"
         THEN [exc |-> FALSE, success |-> TRUE, message |-> response.content]
    ELSE [exc |-> FALSE, success |-> FALSE, message |-> <<"IMPLEMENTATION_FAILED">>]

\* implement_fix_with_retry(issue_data, repo_path, additional_context)
implement_fix_with_retry(started, response) ==
    IF ~started THEN [exc |-> TRUE, success |-> FALSE, message |-> <<>>]
    ELSE IF response.kind = "content"
         THEN [exc |-> FALSE, success |-> TRUE, message |-> response.content]
    ELSE [exc |-> FALSE, success |-> FALSE, message |-> <<"RETRY_FAILED">>]

(***************************************************************************)
(* Inputs: what the assistant answers and what the issue looks like.       *)
(***************************************************************************)
\* a comment timestamp: the i-th instant
Stamp(i) == [k \in 1..i |-> "tick"]

AnalysisHead == <<"#", "#", "SP", "ANALYSIS_H", "NL", "findings", "NL", "NL">>
PlanSection == <<"NL", "#", "#", "SP", "PLAN_H", "NL", "plan">>
BulletBug == <<"-", "SP", "bug", "NL">>
BulletBoldGhost == <<"-", "SP", "*", "*", "ghost", "*", "*", "NL">>
BulletNotedBug == <<"-", "SP", "bug", "FW(", "note", "FW)", "NL">>

\* analysis texts the assistant may answer with
TextLabelsBug == AnalysisHead \o LABELS_HEADING \o <<"NL">> \o BulletBug \o PlanSection
TextLabelsGhostBug ==
    AnalysisHead \o LABELS_HEADING \o <<"NL">> \o BulletBoldGhost \o BulletNotedBug
        \o PlanSection
TextNoLabels == AnalysisHead \o <<"plan">>
TextRuleThenLabels ==
    AnalysisHead \o FOOTER_RULE \o <<"NL">> \o LABELS_HEADING \o <<"NL">> \o BulletBug
        \o PlanSection
TextInsufficient ==
    SENTINEL \o <<"NL", "NL">> \o AnalysisHead \o LABELS_HEADING \o <<"NL">> \o BulletBug
TextInsufficientNested ==
    <<"INSUFFICIENT_">> \o SENTINEL \o <<"INFO", "NL", "NL">> \o AnalysisHead

AnalysisTexts ==
    {TextLabelsBug, TextLabelsGhostBug, TextNoLabels, TextRuleThenLabels,
     TextInsufficient, TextInsufficientNested}

AnalysisResponses ==
    [kind : {"content"}, content : AnalysisTexts]
        \cup [kind : {"empty", "timeout", "error"}, content : {<<>>}]

ImplementResponses ==
    [kind : {"content"}, content : {<<"summary">>}]
        \cup [kind : {"empty", "timeout", "error"}, content : {<<>>}]

\* the comments an issue may start with: an analysis comment of the bot,
\* a plain user comment, and a user comment that quotes the analysis header
BotAnalysisComment == [author |-> <<"bot">>, body |-> AnalysisComment(TextLabelsGhostBug)]
UserComment == [author |-> <<"alice">>, body |-> <<"more", "SP", "detail">>]
UserQuoteComment ==
    [author |-> <<"alice">>,
     body |-> <<">", "SP">> \o ANALYSIS_MARKER \o <<"NL">> \o LABELS_HEADING
                 \o <<"NL", "-", "SP", "bug">>]

CommentKinds == {BotAnalysisComment, UserComment, UserQuoteComment}

Histories ==
    UNION {[1..n -> CommentKinds] : n \in 0..MaxHistory}

\* the comment history of the forge: kinds with their timestamps
Stamped(h) ==
    [i \in 1..Len(h) |-> [author |-> h[i].author, created_at |-> Stamp(i), body |-> h[i].body]]

\* labels of the repository: "bug" exists, "ghost" never does, and the two
\* labels of the bot exist both or not at all (add_label treats each label
\* on its own)
RepoLabelSets ==
    {{<<"bug">>}, {<<"bug">>, NEEDS_MORE_INFO, BOT_PROCESSED_LABEL}}

IssueBody == <<"it", "SP", "fails">>

(***************************************************************************)
(* State.                                                                  *)
(***************************************************************************)
VARIABLES
    issue,              \* the forge's issue: number, state, labels, comments
    repo,               \* the forge's repository: labels, fix branch, pull requests
    wc,                 \* the working copy of the repository under WORK_DIR
    client,             \* CopilotHandler.client is set (start() was awaited)
    pc,                 \* where process_issue stands
    result,             \* how process_issue ended: "none" (running), "True",
                        \* "False", "raised" (an exception left the call)
    pending,            \* the return value (or "exc") a return path carries
    in_try,             \* inside the try/finally that follows a successful clone
    issue_data,         \* the IssueTask
    existing_analysis,  \* what get_existing_analysis returned
    available_labels,
    analysis_result,
    analysis_text,
    suggested_labels,
    label_idx,          \* position of the labeling loop
    implementation_result,
    calls,              \* the gateway calls made so far: [op, arg, ret]
    staged,             \* what each commit attempt found staged
    faults,             \* gateway faults so far
    issue0,             \* the issue as process_issue received it
    repo0,              \* the repository as process_issue found it
    config,             \* Config: auth mode, GITHUB_REPOS, DISABLE_COPILOT
    main_pc,            \* where main and process_repository stand
    main_result,        \* how main ended: "none" (running), "0", "1", "raised"
    raised,             \* an exception is on its way out of main (through the finally)
    client_state,       \* the assistant client: "new", "started", "stopped"
    repos,              \* main: the stripped, non-empty entries of GITHUB_REPOS
    repo_idx,           \* main: position of the loop over repos
    issues,             \* process_repository: the issues it fetched
    issue_idx,          \* process_repository: position of the loop over issues
    success_count,      \* process_repository: calls of process_issue that returned True
    active,             \* the process_issue invocations in progress
    tracker,            \* the forge: per repository, its issues once they were read
    run_log,            \* the calls main and process_repository made: [op, arg, ret]
    run_faults,         \* faults so far in the run
    sessions,           \* assistant sessions that were created and not destroyed
    procs               \* runs that execute at the same time over one repository

forge == <<issue, repo>>
locals == <<issue_data, existing_analysis, available_labels, analysis_result,
            analysis_text, suggested_labels, label_idx, implementation_result>>
ghosts == <<issue0, repo0>>
main_vars == <<config, main_pc, main_result, raised, client_state, repos, repo_idx, issues,
               issue_idx, success_count, active, tracker, run_log, run_faults>>
run_vars == <<main_vars, procs>>
\* what main and process_repository leave alone: the variables of one
\* process_issue call (the assistant client aside), the sessions of its
\* assistant calls, and the runs beside this one
call_vars == <<issue, repo, wc, pc, result, pending, in_try, issue_data,
               existing_analysis, available_labels, analysis_result, analysis_text,
               suggested_labels, label_idx, implementation_result, calls, staged, faults,
               issue0, repo0, sessions, procs>>
vars == <<issue, repo, wc, client, pc, result, pending, in_try, issue_data,
          existing_analysis, available_labels, analysis_result, analysis_text,
          suggested_labels, label_idx, implementation_result, calls, staged, faults,
          issue0, repo0, config, main_pc, main_result, raised, client_state, repos,
          repo_idx, issues, issue_idx, success_count, active, tracker, run_log,
          run_faults, sessions, procs>>

\* the runs beside the one that is followed: none has started
Runs == {1, 2}
NoRuns == [r \in Runs |-> [pc |-> "absent", suggested_labels |-> <<>>, ops |-> {},
                            wiped_peer |-> FALSE]]

NoAnalysis == [exc |-> FALSE, found |-> FALSE, view |-> [none |-> TRUE]]
NoResult == [analysis |-> <<>>, suggested_labels |-> <<>>, action_plan |-> <<>>,
             completed |-> FALSE, insufficient_info |-> FALSE]

\* the run around one process_issue call: main has started the assistant
\* client and process_repository awaits the call for issue 7 of o/a
InsideProcessIssue ==
    /\ config = [auth |-> "token", repos |-> << <<"o", "/", "a">> >>, disable_copilot |-> FALSE]
    /\ main_pc = "in_issue"
    /\ main_result = "none"
    /\ raised = FALSE
    /\ client_state = "started"
    /\ repos = << <<"o", "/", "a">> >>
    /\ repo_idx = 1
    /\ issues = <<7>>
    /\ issue_idx = 1
    /\ success_count = 0
    /\ active = {[repo |-> <<"o", "/", "a">>, number |-> 7]}
    /\ tracker = [n \in {<<"o", "/", "a">>} |->
                    [read |-> TRUE,
                     issues |-> <<[number |-> 7, state |-> "open", pull_request |-> FALSE,
                                   labels |-> {}]>>]]
    /\ run_log = <<>>
    /\ run_faults = 0

\* the remote branch fix/issue-<n> when process_issue starts: there is
\* none, or an earlier call that posted its analysis left one behind
BranchStates(h) ==
    IF h = <<BotAnalysisComment>> THEN {"none", "stale"} ELSE {"none"}

Init ==
    /\ InsideProcessIssue
    /\ \E h \in Histories, ls \in RepoLabelSets :
          /\ issue = [number |-> 7, state |-> "open", pull_request |-> FALSE,
                      body |-> IssueBody, labels |-> {}, comments |-> Stamped(h)]
          /\ \E br \in BranchStates(h) :
                repo = [labels |-> ls, branch |-> br, pulls |-> 0]
    /\ wc = [exists |-> FALSE, dirty |-> FALSE, commits |-> 0]
    /\ client = TRUE
    /\ pc = "entry"
    /\ result = "none"
    /\ pending = "none"
    /\ in_try = FALSE
    /\ issue_data = [body |-> <<>>, number |-> 0]
    /\ existing_analysis = NoAnalysis
    /\ available_labels = {}
    /\ analysis_result = NoResult
    /\ analysis_text = <<>>
    /\ suggested_labels = <<>>
    /\ label_idx = 1
    /\ implementation_result = [success |-> FALSE, message |-> <<>>]
    /\ calls = <<>>
    /\ staged = <<>>
    /\ faults = 0
    /\ issue0 = issue
    /\ repo0 = repo
    /\ sessions = 0
    /\ procs = NoRuns

(***************************************************************************)
(* Control flow of process_issue.                                          *)
(***************************************************************************)
Call(op, arg, ret) == [op |-> op, arg |-> arg, ret |-> ret]

\* the budget of injected faults
Fault(n) == /\ faults + n <= MaxFaults
            /\ faults' = faults + n

\* an exception leaves the step: through the finally when inside the inner
\* try, and to the except clause of process_issue
Raise == /\ pc' = IF in_try THEN "cleanup" ELSE "handler"
         /\ pending' = IF in_try THEN "exc" ELSE pending
         /\ UNCHANGED <<result, in_try>>

\* "add_label(issue, BOT_PROCESSED_LABEL); return value"
ReturnMarked(value) == /\ pc' = "mark"
                       /\ pending' = value
                       /\ UNCHANGED <<result, in_try>>

Goto(next) == /\ pc' = next
              /\ UNCHANGED <<result, pending, in_try>>

\* the step after the labeling loop has handled label i - 1
AfterLabel(i, labels) == IF i > Len(labels) THEN "clone" ELSE "labels"

\* process_issue, S0: build the IssueTask
PI_entry ==
    /\ pc = "entry"
    /\ issue_data' = [body |-> issue.body, number |-> issue.number]
    /\ Goto("lookup")
    /\ UNCHANGED <<forge, wc, client, existing_analysis, available_labels, analysis_result,
                   analysis_text, suggested_labels, label_idx, implementation_result,
                   calls, staged, faults, ghosts, sessions, run_vars>>

\* a step 0 that takes the stored analysis and labels and analyses the
\* issue all the same
PI_lookup_always_analyses ==
    /\ pc = "lookup"
    /\ \E o \in ForgeOutcome :
        LET r == get_existing_analysis(issue, o)
        IN  /\ Fault(FaultCount(<<o>>))
            /\ calls' = Append(calls, Call("get_existing_analysis", <<>>, o))
            /\ IF r.exc
               THEN /\ Raise
                    /\ UNCHANGED locals
               ELSE /\ existing_analysis' = r
                    /\ IF r.found
                       THEN /\ analysis_text' = r.view.analysis
                            /\ suggested_labels' = r.view.suggested_labels
                       ELSE UNCHANGED <<analysis_text, suggested_labels>>
                    /\ Goto("fetch_labels")
                    /\ UNCHANGED <<issue_data, available_labels, analysis_result, label_idx,
                                   implementation_result>>
    /\ UNCHANGED <<forge, wc, client, staged, ghosts, sessions, run_vars>>

\* process_issue, step 0: get_existing_analysis and the choice between
\* reuse, re-analysis and fresh analysis
PI_lookup ==
    /\ pc = "lookup"
    /\ \E o \in ForgeOutcome :
        LET r == get_existing_analysis(issue, o)
            new == DictGet(r.view, "has_new_user_comments", FALSE)
        IN  /\ Fault(FaultCount(<<o>>))
            /\ calls' = Append(calls, Call("get_existing_analysis", <<>>, o))
            /\ IF r.exc
               THEN /\ Raise
                    /\ UNCHANGED locals
               ELSE /\ existing_analysis' = r
                    /\ IF r.found /\ ~new
                       THEN /\ analysis_text' = r.view.analysis
                            /\ suggested_labels' = r.view.suggested_labels
                            /\ Goto(AfterLabel(1, r.view.suggested_labels))
                            /\ UNCHANGED issue_data
                       ELSE /\ issue_data' =
                                 IF r.found /\ new
                                 THEN [issue_data EXCEPT !.body =
                                          @ \o <<"NL", "NL", "#", "#", "SP",
                                                 "ADDED_USER_COMMENTS", ":", "NL">>
                                            \o NewCommentsText(
                                                 DictGet(r.view, "new_user_comments", <<>>))]
                                 ELSE issue_data
                            /\ Goto("fetch_labels")
                            /\ UNCHANGED <<analysis_text, suggested_labels>>
                    /\ UNCHANGED <<available_labels, analysis_result, label_idx,
                                   implementation_result>>
    /\ UNCHANGED <<forge, wc, client, staged, ghosts, sessions, run_vars>>

\* process_issue, step 0b: get_repository_labels
PI_fetch_labels ==
    /\ pc = "fetch_labels"
    /\ \E o \in ForgeOutcome :
        LET r == get_repository_labels(repo, o)
        IN  /\ Fault(FaultCount(<<o>>))
            /\ calls' = Append(calls, Call("get_repository_labels", <<>>, o))
            /\ IF r.exc
               THEN Raise /\ UNCHANGED available_labels
               ELSE Goto("analyze") /\ available_labels' = r.ret
    /\ UNCHANGED <<forge, wc, client, issue_data, existing_analysis, analysis_result,
                   analysis_text, suggested_labels, label_idx, implementation_result,
                   staged, ghosts, sessions, run_vars>>

\* process_issue, step 1: analyze_issue and the two gates on its result
PI_analyze ==
    /\ pc = "analyze"
    /\ \E response \in AnalysisResponses :
        LET r == analyze_issue(client, response)
        IN  /\ Fault(IF response.kind = "content" THEN 0 ELSE 1)
            /\ sessions' = sessions + SessionsLeftOpen(client, response)
            /\ calls' = Append(calls, Call("analyze_issue", issue_data.body,
                                           IF r.exc THEN "exc" ELSE response.kind))
            /\ IF r.exc
               THEN /\ Raise
                    /\ UNCHANGED <<analysis_result, analysis_text, suggested_labels>>
               ELSE /\ analysis_result' = r.result
                    /\ IF DictGet(r.result, "insufficient_info", FALSE)
                       THEN /\ analysis_text' =
                                 Strip(Replace(r.result.analysis, SENTINEL, <<>>))
                            /\ Goto("halt_comment")
                            /\ UNCHANGED suggested_labels
                       ELSE IF ~r.result.completed
                            THEN /\ ReturnMarked("False")
                                 /\ UNCHANGED <<analysis_text, suggested_labels>>
                       ELSE /\ analysis_text' = r.result.analysis
                            /\ suggested_labels' = r.result.suggested_labels
                            /\ Goto("comment")
    /\ UNCHANGED <<forge, wc, client, issue_data, existing_analysis, available_labels,
                   label_idx, implementation_result, staged, ghosts, run_vars>>

\* a step that posts a comment: add_comment(issue, text) with outcome o
PostComment(text, o) ==
    LET r == add_comment(issue, text, Stamp(Len(issue.comments) + 1), o)
    IN  /\ Fault(FaultCount(<<o>>))
        /\ calls' = Append(calls, Call("add_comment", text, o))
        /\ issue' = r.issue
        /\ UNCHANGED repo

\* a step that applies a label: add_label(issue, label) with outcomes os;
\* the outcomes of forge calls that are not made are left "ok"
ApplyLabel(label, os) ==
    LET r == add_label(issue, repo, label, os[1], os[2], os[3])
    IN  /\ \A i \in (1..3) \ r.made : os[i] = "ok"
        /\ Fault(FaultCount(os))
        /\ calls' = Append(calls, Call("add_label", label,
                                       IF r.exc THEN "exc" ELSE IF r.ret THEN "ok" ELSE "gh"))
        /\ issue' = r.issue
        /\ repo' = r.repo

LabelOutcomes == [1..3 -> ForgeOutcome]

\* process_issue, insufficient information: the halt comment
PI_halt_comment ==
    /\ pc = "halt_comment"
    /\ \E o \in ForgeOutcome :
        /\ PostComment(HaltComment(analysis_text), o)
        /\ IF o = "exc" THEN Raise ELSE Goto("halt_label")
    /\ UNCHANGED <<wc, client, locals, staged, ghosts, sessions, run_vars>>

\* the insufficient-information path without its needs-more-info label
PI_halt_label_skipped ==
    /\ pc = "halt_label"
    /\ ReturnMarked("False")
    /\ UNCHANGED <<forge, wc, client, locals, calls, staged, faults, ghosts, sessions, run_vars>>

\* process_issue, insufficient information: the needs-more-info label
PI_halt_label ==
    /\ pc = "halt_label"
    /\ \E os \in LabelOutcomes :
        /\ ApplyLabel(<<"needs-more-info">>, os)
        /\ IF add_label(issue, repo, <<"needs-more-info">>, os[1], os[2], os[3]).exc
           THEN Raise ELSE ReturnMarked("False")
    /\ UNCHANGED <<wc, client, locals, staged, ghosts, sessions, run_vars>>

\* a step 2 that goes on to the labels when the comment could not be posted
PI_comment_failure_ignored ==
    /\ pc = "comment"
    /\ \E o \in ForgeOutcome :
        /\ PostComment(AnalysisComment(analysis_text), o)
        /\ IF o = "exc" THEN Raise
           ELSE Goto(AfterLabel(1, suggested_labels))
    /\ UNCHANGED <<wc, client, locals, staged, ghosts, sessions, run_vars>>

\* process_issue, step 2: the analysis comment
PI_comment ==
    /\ pc = "comment"
    /\ \E o \in ForgeOutcome :
        /\ PostComment(AnalysisComment(analysis_text), o)
        /\ IF o = "exc" THEN Raise
           ELSE IF o = "gh" THEN ReturnMarked("False")
           ELSE Goto(AfterLabel(1, suggested_labels))
    /\ UNCHANGED <<wc, client, locals, staged, ghosts, sessions, run_vars>>

\* process_issue, step 3: one turn of the labeling loop
PI_add_suggested_label ==
    /\ pc = "labels"
    /\ label_idx <= Len(suggested_labels)
    /\ \E os \in LabelOutcomes :
        /\ ApplyLabel(suggested_labels[label_idx], os)
        /\ IF add_label(issue, repo, suggested_labels[label_idx], os[1], os[2], os[3]).exc
           THEN Raise /\ UNCHANGED label_idx
           ELSE /\ label_idx' = label_idx + 1
                /\ Goto(AfterLabel(label_idx + 1, suggested_labels))
    /\ UNCHANGED <<wc, client, issue_data, existing_analysis, available_labels,
                   analysis_result, analysis_text, suggested_labels,
                   implementation_result, staged, ghosts, sessions, run_vars>>

\* process_issue, step 4: clone_repository
PI_clone ==
    /\ pc = "clone"
    /\ \E o_rm \in {"ok", "exc"}, o \in GitOutcome :
        LET r == clone_repository(wc, o_rm, o)
            os == <<o_rm, o>>
        IN  /\ \A i \in (1..2) \ r.made : os[i] = "ok"
            /\ Fault(FaultCount(os))
            /\ calls' = Append(calls, Call("clone_repository", <<>>,
                                 IF r.exc THEN "exc" ELSE IF r.ret THEN "ok" ELSE "fail"))
            /\ wc' = r.wc
            /\ IF r.exc THEN Raise
               ELSE IF ~r.ret THEN ReturnMarked("False")
               ELSE /\ pc' = "checkout"
                    /\ in_try' = TRUE
                    /\ UNCHANGED <<result, pending>>
    /\ UNCHANGED <<forge, client, locals, staged, ghosts, sessions, run_vars>>

\* process_issue, step 5: checkout_branch(repo_path, "fix/issue-<n>")
PI_checkout ==
    /\ pc = "checkout"
    /\ \E o \in GitOutcome :
        /\ Fault(FaultCount(<<o>>))
        /\ calls' = Append(calls, Call("checkout_branch", BranchName(issue.number), o))
        /\ IF checkout_branch(wc, o) THEN Goto("create_branch") ELSE ReturnMarked("False")
    /\ UNCHANGED <<forge, wc, client, locals, staged, ghosts, sessions, run_vars>>

\* a step 5 that gives up when the remote branch could not be created
PI_create_branch_failure_fatal ==
    /\ pc = "create_branch"
    /\ \E o \in ForgeOutcome :
        LET r == create_branch(repo, o)
        IN  /\ Fault(FaultCount(<<o>>))
            /\ calls' = Append(calls, Call("create_branch", BranchName(issue.number), o))
            /\ repo' = r.repo
            /\ IF r.exc THEN Raise
               ELSE IF r.ret THEN Goto("implement") ELSE ReturnMarked("False")
    /\ UNCHANGED <<issue, wc, client, locals, staged, ghosts, sessions, run_vars>>

\* process_issue, step 5: create_branch on the remote; its result is not read
PI_create_branch ==
    /\ pc = "create_branch"
    /\ \E o \in ForgeOutcome :
        LET r == create_branch(repo, o)
        IN  /\ Fault(FaultCount(<<o>>))
            /\ calls' = Append(calls, Call("create_branch", BranchName(issue.number), o))
            /\ repo' = r.repo
            /\ IF r.exc THEN Raise ELSE Goto("implement")
    /\ UNCHANGED <<issue, wc, client, locals, staged, ghosts, sessions, run_vars>>

\* process_issue, step 6: implement_fix; the assistant may edit files of
\* the working copy whatever the exchange ends with
PI_implement ==
    /\ pc = "implement"
    /\ \E response \in ImplementResponses, edits \in BOOLEAN :
        LET r == implement_fix(client, response)
        IN  /\ Fault(IF response.kind = "content" THEN 0 ELSE 1)
            /\ sessions' = sessions + SessionsLeftOpen(client, response)
            /\ calls' = Append(calls, Call("implement_fix", issue_data.body,
                                           IF r.exc THEN "exc" ELSE response.kind))
            /\ IF r.exc
               THEN Raise /\ UNCHANGED <<implementation_result, wc>>
               ELSE /\ implementation_result' = [success |-> r.success, message |-> r.message]
                    /\ wc' = [wc EXCEPT !.dirty = @ \/ edits]
                    /\ IF r.success THEN Goto("commit") ELSE ReturnMarked("False")
    /\ UNCHANGED <<forge, client, issue_data, existing_analysis, available_labels,
                   analysis_result, analysis_text, suggested_labels, label_idx,
                   staged, ghosts, run_vars>>

\* a step that commits: commit_changes(repo_path, commit_message)
Commit(os) ==
    LET r == commit_changes(wc, os[1], os[2], os[3])
    IN  /\ \A i \in (1..3) \ r.made : os[i] = "ok"
        /\ Fault(FaultCount(os))
        /\ calls' = Append(calls, Call("commit_changes", <<>>,
                                       IF r.ret THEN "ok" ELSE "fail"))
        /\ staged' = Append(staged, r.staged)
        /\ wc' = r.wc

CommitOutcomes == [1..3 -> GitOutcome]

\* process_issue, step 7: the first commit attempt
PI_commit ==
    /\ pc = "commit"
    /\ \E os \in CommitOutcomes :
        /\ Commit(os)
        /\ IF commit_changes(wc, os[1], os[2], os[3]).ret THEN Goto("push") ELSE Goto("retry")
    /\ UNCHANGED <<forge, client, locals, ghosts, sessions, run_vars>>

\* process_issue, step 7: implement_fix_with_retry after a commit that failed
PI_retry ==
    /\ pc = "retry"
    /\ \E response \in ImplementResponses, edits \in BOOLEAN :
        LET r == implement_fix_with_retry(client, response)
        IN  /\ Fault(IF response.kind = "content" THEN 0 ELSE 1)
            /\ sessions' = sessions + SessionsLeftOpen(client, response)
            /\ calls' = Append(calls, Call("implement_fix_with_retry", issue_data.body,
                                           IF r.exc THEN "exc" ELSE response.kind))
            /\ IF r.exc
               THEN Raise /\ UNCHANGED wc
               ELSE /\ wc' = [wc EXCEPT !.dirty = @ \/ edits]
                    /\ IF r.success THEN Goto("commit_retry") ELSE Goto("no_changes_comment")
    /\ UNCHANGED <<forge, client, locals, staged, ghosts, run_vars>>

\* a second commit attempt whose result is not read: the push follows
PI_commit_retry_always_pushes ==
    /\ pc = "commit_retry"
    /\ \E os \in CommitOutcomes :
        /\ Commit(os)
        /\ Goto("push")
    /\ UNCHANGED <<forge, client, locals, ghosts, sessions, run_vars>>

\* process_issue, step 7: the second commit attempt
PI_commit_retry ==
    /\ pc = "commit_retry"
    /\ \E os \in CommitOutcomes :
        /\ Commit(os)
        /\ IF commit_changes(wc, os[1], os[2], os[3]).ret
           THEN Goto("push") ELSE Goto("no_changes_comment")
    /\ UNCHANGED <<forge, client, locals, ghosts, sessions, run_vars>>

\* process_issue, step 7: the comment that no code change was necessary
PI_no_changes_comment ==
    /\ pc = "no_changes_comment"
    /\ \E o \in ForgeOutcome :
        /\ PostComment(NO_CHANGES_COMMENT, o)
        /\ IF o = "exc" THEN Raise ELSE ReturnMarked("False")
    /\ UNCHANGED <<wc, client, locals, staged, ghosts, sessions, run_vars>>

\* a push whose result is not read: the pull request follows
PI_push_result_ignored ==
    /\ pc = "push"
    /\ \E o \in GitOutcome :
        LET r == push_branch(wc, repo, o)
        IN  /\ Fault(FaultCount(<<o>>))
            /\ calls' = Append(calls, Call("push_branch", BranchName(issue.number), o))
            /\ repo' = r.repo
            /\ Goto("create_pr")
    /\ UNCHANGED <<issue, wc, client, locals, staged, ghosts, sessions, run_vars>>

\* process_issue, step 8: push_branch
PI_push ==
    /\ pc = "push"
    /\ \E o \in GitOutcome :
        LET r == push_branch(wc, repo, o)
        IN  /\ Fault(FaultCount(<<o>>))
            /\ calls' = Append(calls, Call("push_branch", BranchName(issue.number), o))
            /\ repo' = r.repo
            /\ IF r.ret THEN Goto("create_pr") ELSE ReturnMarked("False")
    /\ UNCHANGED <<issue, wc, client, locals, staged, ghosts, sessions, run_vars>>

\* process_issue, step 9: create_pull_request
PI_create_pr ==
    /\ pc = "create_pr"
    /\ \E o \in ForgeOutcome :
        LET r == create_pull_request(repo, o)
        IN  /\ Fault(FaultCount(<<o>>))
            /\ calls' = Append(calls, Call("create_pull_request", BranchName(issue.number), o))
            /\ repo' = r.repo
            /\ IF r.exc THEN Raise
               ELSE IF r.ret THEN Goto("pr_comment")
               ELSE ReturnMarked("False")
    /\ UNCHANGED <<issue, wc, client, locals, staged, ghosts, sessions, run_vars>>

\* step 9 without the comment that links the pull request
PI_pr_comment_omitted ==
    /\ pc = "pr_comment"
    /\ ReturnMarked("True")
    /\ UNCHANGED <<forge, wc, client, locals, calls, staged, faults, ghosts, sessions, run_vars>>

\* process_issue, step 9: the comment with the link of the pull request
PI_pr_comment ==
    /\ pc = "pr_comment"
    /\ \E o \in ForgeOutcome :
        /\ PostComment(PrLinkComment(<<"pr_url">>), o)
        /\ IF o = "exc" THEN Raise ELSE ReturnMarked("True")
    /\ UNCHANGED <<wc, client, locals, staged, ghosts, sessions, run_vars>>

\* the end of every return path: add_label(issue, BOT_PROCESSED_LABEL) and
\* the return, which passes through the finally when inside the inner try
PI_mark ==
    /\ pc = "mark"
    /\ \E os \in LabelOutcomes :
        /\ ApplyLabel(BOT_PROCESSED_LABEL, os)
        /\ IF add_label(issue, repo, BOT_PROCESSED_LABEL, os[1], os[2], os[3]).exc
           THEN Raise
           ELSE IF in_try
                THEN Goto("cleanup")
                ELSE /\ pc' = "done"
                     /\ result' = pending
                     /\ UNCHANGED <<pending, in_try>>
    /\ UNCHANGED <<wc, client, locals, staged, ghosts, sessions, run_vars>>

\* the finally of the inner try: cleanup_repository(repo_path)
PI_cleanup ==
    /\ pc = "cleanup"
    /\ \E o \in {"ok", "exc"} :
        LET r == cleanup_repository(wc, o)
        IN  /\ (1 \notin r.made) => o = "ok"
            /\ Fault(FaultCount(<<o>>))
            /\ calls' = Append(calls, Call("cleanup_repository", <<>>, o))
            /\ wc' = r.wc
            /\ in_try' = FALSE
            /\ IF r.exc \/ pending = "exc"
               THEN /\ pc' = "handler"
                    /\ UNCHANGED <<result, pending>>
               ELSE /\ pc' = "done"
                    /\ result' = pending
                    /\ UNCHANGED pending
    /\ UNCHANGED <<forge, client, locals, staged, ghosts, sessions, run_vars>>

\* the except clause of process_issue after the terminal label was tried
\* once more: an exception of that attempt (label_exc) is caught and logged,
\* and the call returns False
except_clause_unguarded(label_exc) == IF label_exc THEN "raised" ELSE "False"

except_clause(label_exc) == "False"

\* the except clause of process_issue
PI_handler ==
    /\ pc = "handler"
    /\ \E os \in LabelOutcomes :
        /\ ApplyLabel(BOT_PROCESSED_LABEL, os)
        /\ result' = except_clause(
                         add_label(issue, repo, BOT_PROCESSED_LABEL, os[1], os[2], os[3]).exc)
    /\ pc' = "done"
    /\ UNCHANGED <<pending, in_try>>
    /\ UNCHANGED <<wc, client, locals, staged, ghosts, sessions, run_vars>>

\* the reporter answers the halt comment of a call that has returned: a
\* comment with the requested information is added to the issue
Reporter_adds_information ==
    /\ pc = "done"
    /\ \E i \in DOMAIN calls :
          /\ calls[i].op = "add_comment"
          /\ calls[i].arg = HaltComment(analysis_text)
          /\ calls[i].ret = "ok"
    /\ issue' = [issue EXCEPT !.comments =
                    Append(@, [author |-> UserComment.author,
                               created_at |-> Stamp(Len(issue.comments) + 1),
                               body |-> UserComment.body])]
    /\ pc' = "informed"
    /\ UNCHANGED <<repo, wc, client, result, pending, in_try, locals, calls, staged, faults,
                   ghosts, sessions, run_vars>>

Next ==
    \/ PI_entry
    \/ PI_lookup
    \/ PI_fetch_labels
    \/ PI_analyze
    \/ PI_halt_comment
    \/ PI_halt_label
    \/ PI_comment
    \/ PI_add_suggested_label
    \/ PI_clone
    \/ PI_checkout
    \/ PI_create_branch
    \/ PI_implement
    \/ PI_commit
    \/ PI_retry
    \/ PI_commit_retry
    \/ PI_no_changes_comment
    \/ PI_push
    \/ PI_create_pr
    \/ PI_pr_comment
    \/ PI_mark
    \/ PI_cleanup
    \/ PI_handler
    \/ Reporter_adds_information

Spec == Init /\ [][Next]_vars

(***************************************************************************)
(* The run: main and process_repository (src/check_issues.py) with Config  *)
(* (src/config.py) and the authentication (src/github_auth.py).  A call of *)
(* process_issue is taken here by what it leaves behind: its result and    *)
(* whether the issue carries the terminal label afterwards.                *)
(***************************************************************************)
\* the credentials of the environment: none, a personal token, those of a
\* GitHub App, those of a GitHub App whose private key file is missing
AuthModes == {"none", "token", "app", "app_nokey"}

has_github_app_auth(cfg) == cfg.auth \in {"app", "app_nokey"}
has_token_auth(cfg) == cfg.auth = "token"

\* GITHUB_REPOS after split(","): unset, an entry without '/', a blank
\* entry, one repository, two repositories around an empty entry (the
\* second one padded with blanks), the same repository twice
RepoLists ==
    { << <<>> >>,
      << <<"oa">> >>,
      << <<"o", "/", "a">>, <<"SP">> >>,
      << <<"o", "/", "a">> >>,
      << <<"o", "/", "a">>, <<>>, <<"SP", "o", "/", "b", "SP">> >>,
      << <<"o", "/", "a">>, <<"o", "/", "a">> >> }

RepoNames == {<<"o", "/", "a">>, <<"o", "/", "b">>}

Configs == [auth : AuthModes, repos : RepoLists, disable_copilot : BOOLEAN]

\* Config.validate that reports no error
validate_accepts_everything(cfg) == {}

\* Config.validate(): the errors it reports
validate(cfg) ==
    (IF ~has_github_app_auth(cfg) /\ ~has_token_auth(cfg) THEN {"no_auth"} ELSE {})
        \cup (IF has_github_app_auth(cfg) /\ cfg.auth = "app_nokey" THEN {"no_key"} ELSE {})
        \cup (IF cfg.repos = <<>> \/ cfg.repos = << <<>> >> THEN {"no_repos"} ELSE {})
        \cup (IF \E i \in DOMAIN cfg.repos :
                    cfg.repos[i] # <<>> /\ ~Contains(cfg.repos[i], <<"/">>)
              THEN {"bad_repo"} ELSE {})

\* main, the authentication block: get_github_client_from_env (o_client: the
\* outcome of the App's key file and installation token request), get_user
\* (whose failure is ignored) and _check_token_expiration (o_check: the
\* rate-limit request ends ok, with GithubException 401, with another
\* GithubException or with another exception; only 401 is raised again)
authenticate(cfg, o_client, o_check) ==
    IF has_github_app_auth(cfg)
    THEN IF cfg.auth = "app" /\ o_client = "ok" /\ o_check # "401" THEN "ok" ELSE "fail"
    ELSE IF has_token_auth(cfg)
         THEN IF o_check # "401" THEN "ok" ELSE "fail"
    ELSE "fail"

\* repos = [repo.strip() for repo in Config.GITHUB_REPOS if repo.strip()]
RECURSIVE StrippedNonEmpty(_)
StrippedNonEmpty(entries) ==
    IF entries = <<>> THEN <<>>
    ELSE (IF Strip(Head(entries)) # <<>> THEN <<Strip(Head(entries))>> ELSE <<>>)
            \o StrippedNonEmpty(Tail(entries))

\* the issues a repository of the forge may hold: issue i has number i; the
\* first is a plain open issue, a pull request, an issue that carries the
\* terminal label or a closed issue, the others are plain open issues
PlainIssue(n) == [number |-> n, state |-> "open", pull_request |-> FALSE, labels |-> {}]

FirstIssues ==
    {PlainIssue(1),
     [PlainIssue(1) EXCEPT !.pull_request = TRUE],
     [PlainIssue(1) EXCEPT !.labels = {BOT_PROCESSED_LABEL}],
     [PlainIssue(1) EXCEPT !.state = "closed"]}

IssueLists ==
    {<<>>} \cup {[i \in 1..n |-> IF i = 1 THEN first ELSE PlainIssue(i)] :
                    n \in 1..MaxIssues, first \in FirstIssues}

\* get_unprocessed_issues over the issues of a repository: issue numbers
RECURSIVE ListUnprocessed(_, _, _)
ListUnprocessed(lst, processed_label, o) ==
    IF lst = <<>> THEN <<>>
    ELSE get_unprocessed_issues(Head(lst), processed_label, o)
            \o ListUnprocessed(Tail(lst), processed_label, o)

\* the issues of a repository after process_issue attached the terminal label
MarkIssue(lst, number) ==
    [i \in DOMAIN lst |->
        IF lst[i].number = number
        THEN [lst[i] EXCEPT !.labels = @ \cup {BOT_PROCESSED_LABEL}] ELSE lst[i]]

\* what a call of process_issue leaves behind: its result (the except clause
\* decides whether an exception can leave it) and whether the issue carries
\* the terminal label
ProcessIssueOutcomes ==
    [result : {"True", "False", except_clause(TRUE)}, marked : BOOLEAN]

\* no process_issue call is being executed
NoCall ==
    /\ issue = [number |-> 0, state |-> "open", pull_request |-> FALSE,
                body |-> <<>>, labels |-> {}, comments |-> <<>>]
    /\ repo = [labels |-> {}, branch |-> "none", pulls |-> 0]
    /\ wc = [exists |-> FALSE, dirty |-> FALSE, commits |-> 0]
    /\ pc = "idle"
    /\ result = "none"
    /\ pending = "none"
    /\ in_try = FALSE
    /\ issue_data = [body |-> <<>>, number |-> 0]
    /\ existing_analysis = NoAnalysis
    /\ available_labels = {}
    /\ analysis_result = NoResult
    /\ analysis_text = <<>>
    /\ suggested_labels = <<>>
    /\ label_idx = 1
    /\ implementation_result = [success |-> FALSE, message |-> <<>>]
    /\ calls = <<>>
    /\ staged = <<>>
    /\ faults = 0
    /\ issue0 = issue
    /\ repo0 = repo
    /\ sessions = 0
    /\ procs = NoRuns

RunInit ==
    /\ NoCall
    /\ client = FALSE
    /\ config \in Configs
    /\ main_pc = "validate"
    /\ main_result = "none"
    /\ raised = FALSE
    /\ client_state = "new"
    /\ repos = <<>>
    /\ repo_idx = 1
    /\ issues = <<>>
    /\ issue_idx = 1
    /\ success_count = 0
    /\ active = {}
    /\ tracker = [n \in RepoNames |-> [read |-> FALSE, issues |-> <<>>]]
    /\ run_log = <<>>
    /\ run_faults = 0

loop_vars == <<repos, repo_idx, issues, issue_idx, success_count, active, tracker>>

RunCall(op, repo_name, number, ret) ==
    [op |-> op, repo |-> repo_name, number |-> number, ret |-> ret]

Logged(op, repo_name, number, ret) ==
    run_log' = Append(run_log, RunCall(op, repo_name, number, ret))

\* the budget of injected faults of a run
RunFault(n) == /\ run_faults + n <= MaxFaults
               /\ run_faults' = run_faults + n

\* main: Config.validate() and the return on errors
M_validate ==
    /\ main_pc = "validate"
    /\ Logged("validate", <<>>, 0, IF validate(config) = {} THEN "ok" ELSE "errors")
    /\ IF validate(config) # {}
       THEN main_result' = "1" /\ main_pc' = "exit"
       ELSE main_pc' = "authenticate" /\ UNCHANGED main_result
    /\ UNCHANGED <<call_vars, client, config, raised, client_state, loop_vars, run_faults>>

\* main: the authentication block and the return on its failure
M_authenticate ==
    /\ main_pc = "authenticate"
    /\ \E o_client \in {"ok", "exc"}, o_check \in {"ok", "401", "gh", "exc"} :
        /\ ~has_github_app_auth(config) => o_client = "ok"
        /\ o_client = "exc" => o_check = "ok"
        /\ Logged("authenticate", <<>>, 0, authenticate(config, o_client, o_check))
        /\ IF authenticate(config, o_client, o_check) = "fail"
           THEN main_result' = "1" /\ main_pc' = "exit"
           ELSE main_pc' = "handlers" /\ UNCHANGED main_result
    /\ UNCHANGED <<call_vars, client, config, raised, client_state, loop_vars, run_faults>>

\* main: the token for git (for a GitHub App a second installation token,
\* outcome o_token) and the handlers (GitHandler creates WORK_DIR, outcome
\* o_mkdir); nothing catches an exception here
M_handlers ==
    /\ main_pc = "handlers"
    /\ \E o_token \in {"ok", "exc"}, o_mkdir \in {"ok", "exc"} :
        /\ ~has_github_app_auth(config) => o_token = "ok"
        /\ o_token = "exc" => o_mkdir = "ok"
        /\ RunFault(FaultCount(<<o_token, o_mkdir>>))
        /\ Logged("handlers", <<>>, 0,
                  IF o_token = "ok" /\ o_mkdir = "ok" THEN "ok" ELSE "exc")
        /\ IF o_token = "ok" /\ o_mkdir = "ok"
           THEN main_pc' = "start" /\ UNCHANGED main_result
           ELSE main_result' = "raised" /\ main_pc' = "exit"
    /\ UNCHANGED <<call_vars, client, config, raised, client_state, loop_vars>>

\* main: copilot_handler.start() inside the try; o_new is the outcome of
\* CopilotClient(...), o_start of client.start()
M_start ==
    /\ main_pc = "start"
    /\ \E o_new \in {"ok", "exc"}, o_start \in {"ok", "exc"} :
        /\ o_new = "exc" => o_start = "ok"
        /\ RunFault(FaultCount(<<o_new, o_start>>))
        /\ Logged("start", <<>>, 0, IF o_new = "ok" /\ o_start = "ok" THEN "ok" ELSE "exc")
        /\ client' = (o_new = "ok")
        /\ client_state' = IF o_new = "ok" /\ o_start = "ok" THEN "started" ELSE "new"
        /\ IF o_new = "ok" /\ o_start = "ok"
           THEN /\ repos' = StrippedNonEmpty(config.repos)
                /\ repo_idx' = 1
                /\ main_pc' = "loop"
                /\ UNCHANGED raised
           ELSE /\ raised' = TRUE
                /\ main_pc' = "stop"
                /\ UNCHANGED <<repos, repo_idx>>
    /\ UNCHANGED <<call_vars, config, main_result, issues, issue_idx, success_count,
                   active, tracker>>

\* main: the head of the loop over repos, and the call of process_repository
M_next_repository ==
    /\ main_pc = "loop"
    /\ IF repo_idx > Len(repos)
       THEN main_pc' = "stop" /\ UNCHANGED run_log
       ELSE main_pc' = "list" /\ Logged("process_repository", repos[repo_idx], 0, "called")
    /\ UNCHANGED <<call_vars, client, config, main_result, raised, client_state, loop_vars,
                   run_faults>>

\* main, except Exception of the loop over repos: where the run goes on
\* after a fault that aborts the run
main_except_clause_aborts == "stop"

\* main, except Exception of the loop over repos: the fault is logged and
\* the loop goes on
main_except_clause == "loop"

\* process_repository: get_unprocessed_issues and the return when there is
\* no issue; the forge's issues of the repository are fixed when they are
\* first read
PR_list ==
    /\ main_pc = "list"
    /\ \E o \in ForgeOutcome, first \in IssueLists :
        LET name == repos[repo_idx]
            lst == IF tracker[name].read THEN tracker[name].issues ELSE first
            fetched == ListUnprocessed(lst, BOT_PROCESSED_LABEL, o)
        IN  /\ IF o = "ok" /\ ~tracker[name].read
               THEN tracker' = [tracker EXCEPT ![name] = [read |-> TRUE, issues |-> lst]]
               ELSE UNCHANGED tracker
            /\ RunFault(FaultCount(<<o>>))
            /\ Logged("get_unprocessed_issues", name, 0, o)
            /\ IF o = "exc"
               THEN /\ main_pc' = main_except_clause
                    /\ repo_idx' = repo_idx + 1
                    /\ UNCHANGED <<issues, issue_idx, success_count>>
               ELSE IF o = "gh" \/ fetched = <<>>
                    THEN /\ main_pc' = "loop"
                         /\ repo_idx' = repo_idx + 1
                         /\ UNCHANGED <<issues, issue_idx, success_count>>
               ELSE /\ issues' = fetched
                    /\ issue_idx' = 1
                    /\ success_count' = 0
                    /\ main_pc' = "issue"
                    /\ UNCHANGED repo_idx
    /\ UNCHANGED <<call_vars, client, config, main_result, raised, client_state, repos,
                   active>>

\* the invocation process_repository makes for the issue at issue_idx
Invocation == [repo |-> repos[repo_idx], number |-> issues[issue_idx]]

\* a loop over issues that starts process_issue without awaiting it
PR_issue_call_not_awaited ==
    /\ main_pc = "issue"
    /\ active' = active \cup {Invocation}
    /\ Logged("process_issue", repos[repo_idx], issues[issue_idx], "called")
    /\ IF issue_idx < Len(issues)
       THEN issue_idx' = issue_idx + 1 /\ UNCHANGED <<main_pc, repo_idx>>
       ELSE main_pc' = "loop" /\ repo_idx' = repo_idx + 1 /\ UNCHANGED issue_idx
    /\ UNCHANGED <<call_vars, client, config, main_result, raised, client_state, repos,
                   issues, success_count, tracker, run_faults>>

\* process_repository: await process_issue(issue, ...), the call
PR_issue_call ==
    /\ main_pc = "issue"
    /\ active' = active \cup {Invocation}
    /\ Logged("process_issue", repos[repo_idx], issues[issue_idx], "called")
    /\ main_pc' = "in_issue"
    /\ UNCHANGED <<call_vars, client, config, main_result, raised, client_state, repos,
                   repo_idx, issues, issue_idx, success_count, tracker, run_faults>>

\* a loop over issues that ends at the first call that does not return True
PR_issue_return_stops_on_failure ==
    /\ main_pc = "in_issue"
    /\ \E out \in ProcessIssueOutcomes :
        /\ RunFault(IF out.marked /\ out.result # "raised" THEN 0 ELSE 1)
        /\ active' = active \ {Invocation}
        /\ Logged("process_issue_return", repos[repo_idx], issues[issue_idx], out.result)
        /\ success_count' = IF out.result = "True" THEN success_count + 1 ELSE success_count
        /\ tracker' = IF out.marked
                      THEN [tracker EXCEPT ![repos[repo_idx]].issues =
                                              MarkIssue(@, issues[issue_idx])]
                      ELSE tracker
        /\ IF issue_idx < Len(issues) /\ out.result = "True"
           THEN issue_idx' = issue_idx + 1 /\ main_pc' = "issue" /\ UNCHANGED repo_idx
           ELSE main_pc' = "loop" /\ repo_idx' = repo_idx + 1 /\ UNCHANGED issue_idx
    /\ UNCHANGED <<call_vars, client, config, main_result, raised, client_state, repos,
                   issues>>

\* process_repository: process_issue returns (or raises, which is logged),
\* the count, the pause, and the next issue or the return to main
PR_issue_return ==
    /\ main_pc = "in_issue"
    /\ \E out \in ProcessIssueOutcomes :
        /\ RunFault(IF out.marked /\ out.result # "raised" THEN 0 ELSE 1)
        /\ active' = active \ {Invocation}
        /\ Logged("process_issue_return", repos[repo_idx], issues[issue_idx], out.result)
        /\ success_count' = IF out.result = "True" THEN success_count + 1 ELSE success_count
        /\ tracker' = IF out.marked
                      THEN [tracker EXCEPT ![repos[repo_idx]].issues =
                                              MarkIssue(@, issues[issue_idx])]
                      ELSE tracker
    /\ IF issue_idx < Len(issues)
       THEN issue_idx' = issue_idx + 1 /\ main_pc' = "issue" /\ UNCHANGED repo_idx
       ELSE main_pc' = "loop" /\ repo_idx' = repo_idx + 1 /\ UNCHANGED issue_idx
    /\ UNCHANGED <<call_vars, client, config, main_result, raised, client_state, repos,
                   issues>>

\* main, finally: copilot_handler.stop(), then the exception on its way out
\* goes on, or main returns 0; o is the outcome of client.stop()
M_stop ==
    /\ main_pc = "stop"
    /\ \E o \in {"ok", "exc"} :
        /\ ~client => o = "ok"
        /\ RunFault(FaultCount(<<o>>))
        /\ Logged("stop", <<>>, 0, o)
        /\ client_state' = IF client /\ o = "ok" THEN "stopped" ELSE client_state
        /\ main_result' = IF raised \/ o = "exc" THEN "raised" ELSE "0"
    /\ main_pc' = "exit"
    /\ UNCHANGED <<call_vars, client, config, raised, loop_vars>>

RunNext ==
    \/ M_validate
    \/ M_authenticate
    \/ M_handlers
    \/ M_start
    \/ M_next_repository
    \/ PR_list
    \/ PR_issue_call
    \/ PR_issue_return
    \/ M_stop

RunSpec == RunInit /\ [][RunNext]_vars

(***************************************************************************)
(* Run after run: the program is started again (by hand or by a timer)     *)
(* once a run has ended.  The configuration and the forge stay; everything *)
(* that lives in the process starts anew.  Specification RunsSpec; every   *)
(* run, once started, goes on to its end and is followed by another one.   *)
(***************************************************************************)
M_next_run ==
    /\ main_pc = "exit"
    /\ main_pc' = "validate"
    /\ main_result' = "none"
    /\ raised' = FALSE
    /\ client' = FALSE
    /\ client_state' = "new"
    /\ repos' = <<>>
    /\ repo_idx' = 1
    /\ issues' = <<>>
    /\ issue_idx' = 1
    /\ success_count' = 0
    /\ active' = {}
    /\ run_log' = <<>>
    /\ run_faults' = 0
    /\ UNCHANGED <<call_vars, config, tracker>>

RunsNext ==
    \/ RunNext
    \/ M_next_run

RunsSpec == RunInit /\ [][RunsNext]_vars /\ WF_vars(RunsNext)

(***************************************************************************)
(* The label parser on its own: analyze_issue parses a text the assistant  *)
(* answered, process_issue stores it in the analysis comment, and          *)
(* get_existing_analysis reads it back.  Specification ParseSpec draws the *)
(* text from the texts of at most MaxLines lines of the kinds below.       *)
(***************************************************************************)
LineLabelsHeading == LABELS_HEADING
LineOtherHeading == <<"#", "#", "SP", "PLAN_H">>
LineBug == <<"-", "SP", "bug">>
LineBoldEnhancement == <<"-", "SP", "*", "*", "enhancement", "*", "*">>
LineNotedDocs == <<"-", "SP", "docs", "FW(", "note", "FW)">>
LineNoteOnly == <<"SP", "-", "SP", "(", "note", ")">>
LineBoldBlankBug == <<"-", "SP", "*", "*", "bug", "SP", "*", "*">>
LinePlain == <<"findings">>

ParseLineKinds ==
    {LineLabelsHeading, LineOtherHeading, LineBug, LineBoldEnhancement, LineNotedDocs,
     LineNoteOnly, LineBoldBlankBug, LinePlain}

\* '\n'.join(lines)
RECURSIVE JoinLines(_)
JoinLines(lines) ==
    IF lines = <<>> THEN <<>>
    ELSE IF Len(lines) = 1 THEN Head(lines)
    ELSE Head(lines) \o <<"NL">> \o JoinLines(Tail(lines))

\* a suggested-labels section with a plain, a bold and an annotated bullet
TextThreeBullets ==
    JoinLines(<<LineLabelsHeading, LineBug, LineBoldEnhancement, LineNotedDocs>>)

\* the texts of up to MaxLines lines, the three-bullet section, and a text
\* with a horizontal rule above its suggested-labels section
ParseTexts ==
    {JoinLines(ls) : ls \in UNION {[1..n -> ParseLineKinds] : n \in 1..MaxLines}}
        \cup {TextThreeBullets, TextRuleThenLabels}

ParseInit ==
    /\ InsideProcessIssue
    /\ issue = [number |-> 7, state |-> "open", pull_request |-> FALSE,
                body |-> IssueBody, labels |-> {}, comments |-> <<>>]
    /\ repo = [labels |-> {<<"bug">>}, branch |-> "none", pulls |-> 0]
    /\ wc = [exists |-> FALSE, dirty |-> FALSE, commits |-> 0]
    /\ client = TRUE
    /\ pc = "parse"
    /\ result = "none"
    /\ pending = "none"
    /\ in_try = FALSE
    /\ issue_data = [body |-> IssueBody, number |-> 7]
    /\ existing_analysis = NoAnalysis
    /\ available_labels = {<<"bug">>}
    /\ analysis_result = NoResult
    /\ analysis_text = <<>>
    /\ suggested_labels = <<>>
    /\ label_idx = 1
    /\ implementation_result = [success |-> FALSE, message |-> <<>>]
    /\ calls = <<>>
    /\ staged = <<>>
    /\ faults = 0
    /\ issue0 = issue
    /\ repo0 = repo
    /\ sessions = 0
    /\ procs = NoRuns

\* analyze_issue on a response with content: _parse_analysis fills in the
\* suggested labels
Parse_analyze ==
    /\ pc = "parse"
    /\ \E text \in ParseTexts :
          analysis_result' = analyze_issue(client, [kind |-> "content", content |-> text]).result
    /\ pc' = "store"
    /\ UNCHANGED <<issue, repo, wc, client, result, pending, in_try, issue_data,
                   existing_analysis, available_labels, analysis_text, suggested_labels,
                   label_idx, implementation_result, calls, staged, faults, ghosts, sessions, run_vars>>

\* process_issue, steps 1 and 2: the analysis text and the labels of the
\* result, and the analysis comment the forge accepts
Parse_store ==
    /\ pc = "store"
    /\ analysis_text' = analysis_result.analysis
    /\ suggested_labels' = analysis_result.suggested_labels
    /\ issue' = add_comment(issue, AnalysisComment(analysis_result.analysis),
                            Stamp(Len(issue.comments) + 1), "ok").issue
    /\ pc' = "reread"
    /\ UNCHANGED <<repo, wc, client, result, pending, in_try, issue_data,
                   existing_analysis, available_labels, analysis_result,
                   label_idx, implementation_result, calls, staged, faults, ghosts, sessions, run_vars>>

\* get_existing_analysis on the issue that now carries the analysis comment
Parse_reread ==
    /\ pc = "reread"
    /\ existing_analysis' = get_existing_analysis(issue, "ok")
    /\ pc' = "reread_done"
    /\ UNCHANGED <<issue, repo, wc, client, result, pending, in_try, issue_data,
                   available_labels, analysis_result, analysis_text, suggested_labels,
                   label_idx, implementation_result, calls, staged, faults, ghosts, sessions, run_vars>>

ParseNext ==
    \/ Parse_analyze
    \/ Parse_store
    \/ Parse_reread

ParseSpec == ParseInit /\ [][ParseNext]_vars

(***************************************************************************)
(* Two runs of the program at the same time over one repository, on one    *)
(* host: each is a process of its own with its own handlers, and they      *)
(* share the issue and the repository on the forge and the clone path      *)
(* WORK_DIR/<owner>_<repo>.  The program takes no lock and leaves no claim *)
(* on an issue.  Each run lists the issues and takes the issue through     *)
(* process_issue; every call of a handler is one step.  No call is refused *)
(* by the forge or the assistant; a git command fails when the directory   *)
(* it runs in is gone, checkout and push may fail as well.                 *)
(* procs[r] = [pc, suggested_labels (the labels still to apply), ops (the  *)
(* handler methods the run called), wiped_peer (the run cloned while the   *)
(* other run was working in the directory)].                               *)
(***************************************************************************)
ConcInit ==
    /\ InsideProcessIssue
    /\ issue = [number |-> 7, state |-> "open", pull_request |-> FALSE,
                body |-> IssueBody, labels |-> {}, comments |-> <<>>]
    /\ repo = [labels |-> {<<"bug">>}, branch |-> "none", pulls |-> 0]
    /\ wc = [exists |-> FALSE, dirty |-> FALSE, commits |-> 0]
    /\ client = TRUE
    /\ pc = "entry"
    /\ result = "none"
    /\ pending = "none"
    /\ in_try = FALSE
    /\ issue_data = [body |-> IssueBody, number |-> 7]
    /\ existing_analysis = NoAnalysis
    /\ available_labels = {<<"bug">>}
    /\ analysis_result = NoResult
    /\ analysis_text = <<>>
    /\ suggested_labels = <<>>
    /\ label_idx = 1
    /\ implementation_result = [success |-> FALSE, message |-> <<>>]
    /\ calls = <<>>
    /\ staged = <<>>
    /\ faults = 0
    /\ issue0 = issue
    /\ repo0 = repo
    /\ sessions = 0
    /\ procs = [r \in Runs |-> [NoRuns[r] EXCEPT !.pc = "list"]]

\* what a step of a concurrent run leaves alone besides the forge and the
\* working copy
conc_frame == <<client, pc, result, pending, in_try, locals, calls, staged, faults, ghosts,
                sessions, main_vars>>

\* run r called the handler method op and goes on at next
RunStep(r, op, next) ==
    procs' = [procs EXCEPT ![r].pc = next, ![r].ops = @ \cup {op}]

\* the run is between its clone and its cleanup: it works in the directory
UsesWorkingCopy(r) ==
    procs[r].pc \in {"checkout", "create_branch", "implement", "commit", "retry",
                     "commit_retry", "no_changes_comment", "push", "create_pr",
                     "pr_comment", "mark"}

AfterLabels(labels) == IF labels = <<>> THEN "clone" ELSE "labels"

\* process_repository: get_unprocessed_issues, then process_issue on the
\* issue when it is listed
Run_list(r) ==
    /\ procs[r].pc = "list"
    /\ RunStep(r, "get_unprocessed_issues",
               IF get_unprocessed_issues(issue, BOT_PROCESSED_LABEL, "ok") # <<>>
               THEN "lookup" ELSE "end")
    /\ UNCHANGED <<issue, repo, wc, conc_frame>>

\* process_issue, step 0: get_existing_analysis
Run_lookup(r) ==
    /\ procs[r].pc = "lookup"
    /\ LET e == get_existing_analysis(issue, "ok")
       IN  IF e.found
           THEN procs' = [procs EXCEPT
                             ![r].pc = AfterLabels(e.view.suggested_labels),
                             ![r].suggested_labels = e.view.suggested_labels,
                             ![r].ops = @ \cup {"get_existing_analysis"}]
           ELSE RunStep(r, "get_existing_analysis", "analyze")
    /\ UNCHANGED <<issue, repo, wc, conc_frame>>

\* process_issue, steps 0b and 1: get_repository_labels and analyze_issue
Run_analyze(r) ==
    /\ procs[r].pc = "analyze"
    /\ LET a == analyze_issue(TRUE, [kind |-> "content", content |-> TextLabelsBug])
       IN  procs' = [procs EXCEPT ![r].pc = "comment",
                                  ![r].suggested_labels = a.result.suggested_labels,
                                  ![r].ops = @ \cup {"get_repository_labels", "analyze_issue"}]
    /\ UNCHANGED <<issue, repo, wc, conc_frame>>

\* process_issue, step 2: the analysis comment
Run_comment(r) ==
    /\ procs[r].pc = "comment"
    /\ issue' = add_comment(issue, AnalysisComment(TextLabelsBug),
                            Stamp(Len(issue.comments) + 1), "ok").issue
    /\ RunStep(r, "add_comment", AfterLabels(procs[r].suggested_labels))
    /\ UNCHANGED <<repo, wc, conc_frame>>

\* process_issue, step 3: add_label on the next suggested label
Run_add_suggested_label(r) ==
    /\ procs[r].pc = "labels"
    /\ LET l == add_label(issue, repo, Head(procs[r].suggested_labels), "ok", "ok", "ok")
       IN  /\ issue' = l.issue
           /\ repo' = l.repo
    /\ procs' = [procs EXCEPT ![r].pc = AfterLabels(Tail(procs[r].suggested_labels)),
                              ![r].suggested_labels = Tail(@),
                              ![r].ops = @ \cup {"add_label"}]
    /\ UNCHANGED <<wc, conc_frame>>

\* a clone that leaves the directory alone and fails while the other run
\* works in it
Run_clone_spares_peer(r) ==
    /\ procs[r].pc = "clone"
    /\ IF \E q \in Runs \ {r} : UsesWorkingCopy(q)
       THEN RunStep(r, "clone_repository", "end") /\ UNCHANGED wc
       ELSE /\ wc' = clone_repository(wc, "ok", "ok").wc
            /\ RunStep(r, "clone_repository", "checkout")
    /\ UNCHANGED <<issue, repo, conc_frame>>

\* process_issue, step 4: clone_repository removes the directory at the
\* clone path when there is one, and clones
Run_clone(r) ==
    /\ procs[r].pc = "clone"
    /\ wc' = clone_repository(wc, "ok", "ok").wc
    /\ procs' = [procs EXCEPT
                    ![r].pc = "checkout",
                    ![r].ops = @ \cup {"clone_repository"},
                    ![r].wiped_peer = @ \/ \E q \in Runs \ {r} : UsesWorkingCopy(q)]
    /\ UNCHANGED <<issue, repo, conc_frame>>

\* process_issue, step 5: checkout_branch
Run_checkout(r) ==
    /\ procs[r].pc = "checkout"
    /\ \E o \in GitOutcome :
          /\ ~wc.exists => o = "fail"
          /\ RunStep(r, "checkout_branch",
                     IF checkout_branch(wc, o) THEN "create_branch" ELSE "mark")
    /\ UNCHANGED <<issue, repo, wc, conc_frame>>

\* process_issue, step 5: create_branch on the remote
Run_create_branch(r) ==
    /\ procs[r].pc = "create_branch"
    /\ repo' = create_branch(repo, "ok").repo
    /\ RunStep(r, "create_branch", "implement")
    /\ UNCHANGED <<issue, wc, conc_frame>>

\* process_issue, step 6: implement_fix; the assistant may edit files of
\* the directory when it is there
Run_implement(r) ==
    /\ procs[r].pc = "implement"
    /\ \E edits \in BOOLEAN :
          wc' = [wc EXCEPT !.dirty = @ \/ (edits /\ wc.exists)]
    /\ RunStep(r, "implement_fix",
               IF implement_fix(TRUE, [kind |-> "content", content |-> <<"summary">>]).success
               THEN "commit" ELSE "mark")
    /\ UNCHANGED <<issue, repo, conc_frame>>

\* commit_changes in a directory that may be gone
CommitInPlace == commit_changes(wc, IF wc.exists THEN "ok" ELSE "fail", "ok", "ok")

\* process_issue, step 7: the first commit attempt
Run_commit(r) ==
    /\ procs[r].pc = "commit"
    /\ wc' = CommitInPlace.wc
    /\ RunStep(r, "commit_changes", IF CommitInPlace.ret THEN "push" ELSE "retry")
    /\ UNCHANGED <<issue, repo, conc_frame>>

\* process_issue, step 7: implement_fix_with_retry
Run_retry(r) ==
    /\ procs[r].pc = "retry"
    /\ \E edits \in BOOLEAN :
          wc' = [wc EXCEPT !.dirty = @ \/ (edits /\ wc.exists)]
    /\ RunStep(r, "implement_fix_with_retry",
               IF implement_fix_with_retry(TRUE, [kind |-> "content",
                                                  content |-> <<"summary">>]).success
               THEN "commit_retry" ELSE "no_changes_comment")
    /\ UNCHANGED <<issue, repo, conc_frame>>

\* process_issue, step 7: the second commit attempt
Run_commit_retry(r) ==
    /\ procs[r].pc = "commit_retry"
    /\ wc' = CommitInPlace.wc
    /\ RunStep(r, "commit_changes",
               IF CommitInPlace.ret THEN "push" ELSE "no_changes_comment")
    /\ UNCHANGED <<issue, repo, conc_frame>>

\* process_issue, step 7: the no-changes comment
Run_no_changes_comment(r) ==
    /\ procs[r].pc = "no_changes_comment"
    /\ issue' = add_comment(issue, NO_CHANGES_COMMENT,
                            Stamp(Len(issue.comments) + 1), "ok").issue
    /\ RunStep(r, "add_comment", "mark")
    /\ UNCHANGED <<repo, wc, conc_frame>>

\* process_issue, step 8: push_branch
Run_push(r) ==
    /\ procs[r].pc = "push"
    /\ \E o \in GitOutcome :
          /\ ~wc.exists => o = "fail"
          /\ repo' = push_branch(wc, repo, o).repo
          /\ RunStep(r, "push_branch",
                     IF push_branch(wc, repo, o).ret THEN "create_pr" ELSE "mark")
    /\ UNCHANGED <<issue, wc, conc_frame>>

\* process_issue, step 9: create_pull_request; the forge refuses a second
\* pull request for the branch
Run_create_pr(r) ==
    /\ procs[r].pc = "create_pr"
    /\ LET p == create_pull_request(repo, IF repo.pulls = 0 THEN "ok" ELSE "gh")
       IN  /\ repo' = p.repo
           /\ RunStep(r, "create_pull_request", IF p.ret THEN "pr_comment" ELSE "mark")
    /\ UNCHANGED <<issue, wc, conc_frame>>

\* process_issue, step 9: the comment with the link of the pull request
Run_pr_comment(r) ==
    /\ procs[r].pc = "pr_comment"
    /\ issue' = add_comment(issue, PrLinkComment(<<"pr_url">>),
                            Stamp(Len(issue.comments) + 1), "ok").issue
    /\ RunStep(r, "add_comment", "mark")
    /\ UNCHANGED <<repo, wc, conc_frame>>

\* the end of every return path: the terminal label
Run_mark(r) ==
    /\ procs[r].pc = "mark"
    /\ LET l == add_label(issue, repo, BOT_PROCESSED_LABEL, "ok", "ok", "ok")
       IN  /\ issue' = l.issue
           /\ repo' = l.repo
    /\ RunStep(r, "add_label", "cleanup")
    /\ UNCHANGED <<wc, conc_frame>>

\* the finally of the inner try: cleanup_repository
Run_cleanup(r) ==
    /\ procs[r].pc = "cleanup"
    /\ wc' = cleanup_repository(wc, "ok").wc
    /\ RunStep(r, "cleanup_repository", "end")
    /\ UNCHANGED <<issue, repo, conc_frame>>

ConcNext ==
    \E r \in Runs :
        \/ Run_list(r)
        \/ Run_lookup(r)
        \/ Run_analyze(r)
        \/ Run_comment(r)
        \/ Run_add_suggested_label(r)
        \/ Run_clone(r)
        \/ Run_checkout(r)
        \/ Run_create_branch(r)
        \/ Run_implement(r)
        \/ Run_commit(r)
        \/ Run_retry(r)
        \/ Run_commit_retry(r)
        \/ Run_no_changes_comment(r)
        \/ Run_push(r)
        \/ Run_create_pr(r)
        \/ Run_pr_comment(r)
        \/ Run_mark(r)
        \/ Run_cleanup(r)

ConcSpec == ConcInit /\ [][ConcNext]_vars

(***************************************************************************)
(* Vocabulary of the properties.                                           *)
(***************************************************************************)
Done == pc = "done"

Range(f) == {f[i] : i \in DOMAIN f}

\* positions of the calls of an operation
CallsOf(op) == {i \in DOMAIN calls : calls[i].op = op}
Count(op) == Cardinality(CallsOf(op))

\* positions where the terminal label was tried, and where it was accepted
TerminalAttempts == {i \in CallsOf("add_label") : calls[i].arg = BOT_PROCESSED_LABEL}
TerminalApplied == {i \in TerminalAttempts : calls[i].ret = "ok"}

\* the issue is returned by a following get_unprocessed_issues call
ListedAgain == get_unprocessed_issues(issue, BOT_PROCESSED_LABEL, "ok") # <<>>

(***************************************************************************)
(* C1  (as stated) Once process_issue has returned, whatever the gateways  *)
(* answered, the issue carries 'bot-processed' and a following             *)
(* get_unprocessed_issues call does not return it.                         *)
(***************************************************************************)
C1_MarkedOnEveryReturn ==
    Done => (BOT_PROCESSED_LABEL \in issue.labels /\ ~ListedAgain)

(***************************************************************************)
(* C1  (amended) Once process_issue has returned it has tried to apply     *)
(* 'bot-processed' at least once; the issue carries the label, and is not  *)
(* returned by a following get_unprocessed_issues call, exactly when one   *)
(* of those add_label calls succeeded.                                     *)
(***************************************************************************)
C1_MarkedWhenLabelAccepted ==
    Done => /\ TerminalAttempts # {}
            /\ (BOT_PROCESSED_LABEL \in issue.labels) <=> (TerminalApplied # {})
            /\ ListedAgain <=> (TerminalApplied = {})

\* a failing call that had to create the label and then carries it
C1_Witness ==
    /\ Done
    /\ result = "False"
    /\ BOT_PROCESSED_LABEL \notin repo0.labels
    /\ BOT_PROCESSED_LABEL \in issue.labels
    /\ ~ListedAgain

(***************************************************************************)
(* C2  process_issue lets no exception out: when a gateway call raised,    *)
(* the call ends with result False, and the terminal label was tried at    *)
(* or after the raising call (the raising call may be that very attempt,   *)
(* inside the except clause).                                              *)
(***************************************************************************)
C2_NoExceptionEscapes ==
    /\ result # "raised"
    /\ Done => \A i \in DOMAIN calls :
                  calls[i].ret = "exc" =>
                      /\ result = "False"
                      /\ \E j \in TerminalAttempts : j >= i

\* the working copy could not be removed, and then the terminal label
\* raised inside the except clause
C2_Witness ==
    /\ Done
    /\ \E i \in CallsOf("cleanup_repository") : calls[i].ret = "exc"
    /\ calls[Len(calls)].op = "add_label"
    /\ calls[Len(calls)].ret = "exc"

(***************************************************************************)
(* C3  When the first commit attempt of a call found zero staged changes,  *)
(* implement_fix_with_retry is invoked exactly once (it is the next call:  *)
(* not yet made while the call stands at the retry step, made once from    *)
(* then on); and implement_fix plus implement_fix_with_retry are never     *)
(* invoked more than twice in one call.                                    *)
(***************************************************************************)
C3_RetryBound ==
    /\ Count("implement_fix") + Count("implement_fix_with_retry") <= 2
    /\ Count("implement_fix") <= 1
    /\ (Len(staged) >= 1 /\ staged[1] = "zero") =>
           Count("implement_fix_with_retry") = (IF pc = "retry" THEN 0 ELSE 1)

\* nothing staged at first, the retry edits files, and the pull request opens
C3_Witness ==
    /\ Done
    /\ staged = <<"zero", "some">>
    /\ Count("implement_fix") = 1
    /\ Count("implement_fix_with_retry") = 1
    /\ result = "True"

(***************************************************************************)
(* C4  Scenario C: the analysis is available, implement_fix succeeds, the  *)
(* first commit attempt finds nothing staged, and after the retry the      *)
(* second commit attempt finds nothing staged either.  Then process_issue  *)
(* calls add_comment with the no-changes text, tries the terminal label    *)
(* after it, returns False and calls neither push_branch nor               *)
(* create_pull_request; the comment and the label are on the issue         *)
(* when the forge accepted them.                                           *)
(***************************************************************************)
ScenarioC == staged = <<"zero", "zero">> /\ implementation_result.success

NoChangesCalls == {i \in CallsOf("add_comment") : calls[i].arg = NO_CHANGES_COMMENT}

C4_NoChangesOutcome ==
    (Done /\ ScenarioC) =>
        /\ result = "False"
        /\ Cardinality(NoChangesCalls) = 1
        /\ \A i \in NoChangesCalls :
              /\ \E j \in TerminalAttempts : j > i
              /\ calls[i].ret = "ok" =>
                    \E k \in DOMAIN issue.comments :
                        /\ issue.comments[k].body = NO_CHANGES_COMMENT
                        /\ issue.comments[k].author = <<"bot">>
        /\ (TerminalApplied # {}) => BOT_PROCESSED_LABEL \in issue.labels
        /\ faults = 0 => BOT_PROCESSED_LABEL \in issue.labels
        /\ Count("push_branch") = 0
        /\ Count("create_pull_request") = 0
        /\ repo.pulls = repo0.pulls

\* scenario C with every gateway call succeeding
C4_Witness ==
    /\ Done
    /\ ScenarioC
    /\ analysis_result.completed
    /\ faults = 0
    /\ issue.comments[Len(issue.comments)].body = NO_CHANGES_COMMENT
    /\ BOT_PROCESSED_LABEL \in issue.labels
    /\ result = "False"

(***************************************************************************)
(* Comment histories the properties speak about.                           *)
(***************************************************************************)
History0 == issue0.comments

IsBotAnalysis(c) == c.author = <<"bot">> /\ Contains(c.body, ANALYSIS_MARKER)

\* the comments were fetched: get_existing_analysis did not fail
LookupOk == Count("get_existing_analysis") = 1 /\ calls[1].ret = "ok"

\* the labels process_issue tried in its labeling step, in call order
IsSuggestedAttempt(c) ==
    c.op = "add_label" /\ c.arg \notin {BOT_PROCESSED_LABEL, NEEDS_MORE_INFO}
SuggestedAttempts ==
    LET tried == SelectSeq(calls, IsSuggestedAttempt)
    IN  [i \in 1..Len(tried) |-> tried[i].arg]

IsPrefix(a, b) == Len(a) <= Len(b) /\ \A i \in 1..Len(a) : a[i] = b[i]

\* the labeling loop has run to its end
LabelingOver == Count("clone_repository") >= 1

C6_ReanalysisOnNewComment ==
    (Done /\ faults = 0 /\ LookupOk /\ Len(History0) = 2 /\ IsBotAnalysis(History0[1])
          /\ History0[2].author # <<"bot">>
          /\ ~Contains(History0[2].body, ANALYSIS_MARKER)) =>
        /\ Count("analyze_issue") = 1
        /\ \A i \in CallsOf("analyze_issue") :
              /\ StartsWith(calls[i].arg, issue0.body)
              /\ Contains(calls[i].arg, History0[2].author)
              /\ Contains(calls[i].arg, History0[2].created_at)
              /\ Contains(calls[i].arg, History0[2].body)

(***************************************************************************)
(* C7  Insufficient information.  When analyze_issue signalled it,         *)
(* process_issue has, on return, called add_comment exactly once, with a   *)
(* text that does not contain the sentinel INSUFFICIENT_INFO; it returns   *)
(* False; it has called none of clone_repository, checkout_branch,         *)
(* create_branch, implement_fix, implement_fix_with_retry, commit_changes, *)
(* push_branch, create_pull_request; and it tried no suggested label.      *)
(***************************************************************************)
InsufficientPath == DictGet(analysis_result, "insufficient_info", FALSE)

LaterStepOps ==
    {"clone_repository", "checkout_branch", "create_branch", "implement_fix",
     "implement_fix_with_retry", "commit_changes", "push_branch", "create_pull_request"}

C7_HaltWithoutSentinel ==
    (Done /\ InsufficientPath) =>
        /\ Count("add_comment") = 1
        /\ \A i \in CallsOf("add_comment") : ~Contains(calls[i].arg, SENTINEL)
        /\ result = "False"
        /\ \A i \in DOMAIN calls : calls[i].op \notin LaterStepOps
        /\ SuggestedAttempts = <<>>

\* C7 without its clause on the sentinel: the rest of the statement
C7_HaltRest ==
    (Done /\ InsufficientPath) =>
        /\ Count("add_comment") = 1
        /\ result = "False"
        /\ \A i \in DOMAIN calls : calls[i].op \notin LaterStepOps
        /\ SuggestedAttempts = <<>>

(***************************************************************************)
(* C8  (as stated) After process_issue returns on the insufficient-        *)
(* information path the issue carries both 'needs-more-info' and           *)
(* 'bot-processed', whether or not the repository had those labels         *)
(* (stated here for the calls in which no gateway call failed).            *)
(***************************************************************************)
C8_BothLabelsAlways ==
    (Done /\ InsufficientPath /\ faults = 0) =>
        (NEEDS_MORE_INFO \in issue.labels /\ BOT_PROCESSED_LABEL \in issue.labels)

(***************************************************************************)
(* C8  (amended) After process_issue returns on the insufficient-          *)
(* information path: the issue carries 'needs-more-info' exactly when the  *)
(* add_label call for it succeeded, which requires that the repository     *)
(* already had that label (it is never created); it carries                *)
(* 'bot-processed' exactly when an add_label call for it succeeded,        *)
(* whether or not the repository had it.  When no gateway call failed,     *)
(* the issue carries 'bot-processed', and 'needs-more-info' exactly when   *)
(* the repository already had it.                                          *)
(***************************************************************************)
NeedsInfoApplied ==
    {i \in CallsOf("add_label") : calls[i].arg = NEEDS_MORE_INFO /\ calls[i].ret = "ok"}

C8_LabelsOnInsufficientInfo ==
    (Done /\ InsufficientPath) =>
        /\ (NEEDS_MORE_INFO \in issue.labels) <=> (NeedsInfoApplied # {})
        /\ (NeedsInfoApplied # {}) => NEEDS_MORE_INFO \in repo0.labels
        /\ (NEEDS_MORE_INFO \in repo.labels) <=> (NEEDS_MORE_INFO \in repo0.labels)
        /\ (BOT_PROCESSED_LABEL \in issue.labels) <=> (TerminalApplied # {})
        /\ faults = 0 =>
              /\ BOT_PROCESSED_LABEL \in issue.labels
              /\ (NEEDS_MORE_INFO \in issue.labels) <=> (NEEDS_MORE_INFO \in repo0.labels)

\* the repository had neither label: only the terminal one ends on the issue
C8_Witness ==
    /\ Done
    /\ InsufficientPath
    /\ faults = 0
    /\ repo0.labels \cap {NEEDS_MORE_INFO, BOT_PROCESSED_LABEL} = {}
    /\ issue.labels = {BOT_PROCESSED_LABEL}

(***************************************************************************)
(* C9  Every analysis record has insufficient_info => ~completed: the      *)
(* result of analyze_issue (content, sentinel, empty response, timeout,    *)
(* error) and the record get_existing_analysis builds from a comment       *)
(* (which has neither key, so both read as false).                         *)
(***************************************************************************)
MutuallyExclusive(record) ==
    DictGet(record, "insufficient_info", FALSE) => ~DictGet(record, "completed", FALSE)

C9_InsufficientNotCompleted ==
    /\ MutuallyExclusive(analysis_result)
    /\ MutuallyExclusive(existing_analysis.view)

\* analyze_issue has returned a record with insufficient_info set
C9_Witness ==
    /\ Count("analyze_issue") = 1
    /\ analysis_result.insufficient_info
    /\ ~analysis_result.completed
    /\ analysis_result.analysis = TextInsufficient

(***************************************************************************)
(* C10  Labels.  No label that the repository lacked is attached to the    *)
(* issue or created, except 'bot-processed'; every other label attached    *)
(* by process_issue is a suggested label or 'needs-more-info' and was in   *)
(* the repository before the call.                                         *)
(***************************************************************************)
C10_OnlyExistingLabelsAttached ==
    /\ \A l \in repo.labels \ repo0.labels : l = BOT_PROCESSED_LABEL
    /\ \A l \in issue.labels \ issue0.labels :
          \/ l = BOT_PROCESSED_LABEL
          \/ /\ l \in repo0.labels
             /\ l \in Range(suggested_labels) \cup {NEEDS_MORE_INFO}

\* 'ghost' was suggested and skipped, 'bug' attached, the terminal label
\* created and attached
C10_Witness ==
    /\ Done
    /\ <<"ghost">> \in Range(SuggestedAttempts)
    /\ BOT_PROCESSED_LABEL \notin repo0.labels
    /\ issue.labels = {<<"bug">>, BOT_PROCESSED_LABEL}
    /\ repo.labels = repo0.labels \cup {BOT_PROCESSED_LABEL}

(***************************************************************************)
(* Pull requests and call order.                                           *)
(***************************************************************************)
\* positions where create_pull_request returned a URL
PullRequestOpened == {i \in CallsOf("create_pull_request") : calls[i].ret = "ok"}

\* a gateway call after position i raised
RaisedAfter(i) == \E j \in DOMAIN calls : j > i /\ calls[j].ret = "exc"

(***************************************************************************)
(* C11  (as stated) process_issue returns true if and only if              *)
(* create_pull_request returned a URL during the call.                     *)
(***************************************************************************)
C11_TrueIffPullRequest ==
    Done => ((result = "True") <=> (PullRequestOpened # {}))

(***************************************************************************)
(* C11  (amended) process_issue returns true only if create_pull_request   *)
(* returned a URL (and the repository then has one pull request more);     *)
(* when create_pull_request returned a URL the result is true unless a     *)
(* later gateway call of the same process_issue call raised (the PR-link   *)
(* comment, the terminal label or the removal of the working copy), in     *)
(* which case it is false although the pull request exists.                *)
(***************************************************************************)
C11_TrueOnlyWithPullRequest ==
    Done =>
        /\ (result = "True") => (PullRequestOpened # {})
        /\ (PullRequestOpened # {}) <=> (repo.pulls = repo0.pulls + 1)
        /\ (PullRequestOpened = {}) => (repo.pulls = repo0.pulls)
        /\ \A i \in PullRequestOpened : (result = "True") <=> ~RaisedAfter(i)

\* the pull request opened, the forge refused the PR-link comment with a
\* GithubException, and the call still returns true
C11_Witness ==
    /\ Done
    /\ PullRequestOpened # {}
    /\ \E i \in CallsOf("add_comment") :
          calls[i].arg = PrLinkComment(<<"pr_url">>) /\ calls[i].ret = "gh"
    /\ result = "True"

(***************************************************************************)
(* C12  Scenario A: a fresh issue (no comment bears the analysis header),  *)
(* the analysis completes without the sentinel, every suggested label is   *)
(* in the repository, no gateway call fails and the first commit attempt   *)
(* stages changes.  Then process_issue tries every suggested label, in     *)
(* order, and the issue carries them; it calls create_pull_request once,   *)
(* for the branch fix/issue-<number>, which was pushed, and the repository *)
(* has one pull request more; the PR-link comment is the last comment of   *)
(* the issue; the issue carries the terminal label; the result is true;    *)
(* and implement_fix_with_retry is not called.                             *)
(***************************************************************************)
FreshIssue == \A i \in DOMAIN History0 : ~Contains(History0[i].body, ANALYSIS_MARKER)

ScenarioA ==
    /\ FreshIssue
    /\ faults = 0
    /\ analysis_result.completed
    /\ ~InsufficientPath
    /\ Range(suggested_labels) \subseteq repo0.labels
    /\ Len(staged) >= 1
    /\ staged[1] = "some"

C12_ScenarioA ==
    (Done /\ ScenarioA) =>
        /\ SuggestedAttempts = suggested_labels
        /\ Range(suggested_labels) \subseteq issue.labels
        /\ Count("create_pull_request") = 1
        /\ \A i \in CallsOf("create_pull_request") :
              /\ calls[i].arg = BranchName(issue0.number)
              /\ calls[i].ret = "ok"
              /\ \E j \in CallsOf("push_branch") :
                    j < i /\ calls[j].arg = calls[i].arg /\ calls[j].ret = "ok"
        /\ repo.pulls = repo0.pulls + 1
        /\ repo.branch = "pushed"
        /\ issue.comments[Len(issue.comments)].body = PrLinkComment(<<"pr_url">>)
        /\ BOT_PROCESSED_LABEL \in issue.labels
        /\ result = "True"
        /\ Count("implement_fix_with_retry") = 0
        /\ staged = <<"some">>

\* scenario A with the suggested label 'bug'
C12_Witness ==
    /\ Done
    /\ ScenarioA
    /\ suggested_labels = << <<"bug">> >>
    /\ issue.labels = {<<"bug">>, BOT_PROCESSED_LABEL}
    /\ result = "True"

(***************************************************************************)
(* C13  (as stated) Whenever clone_repository succeeded in a process_issue *)
(* call, the working copy no longer exists when the call returns.          *)
(***************************************************************************)
CloneSucceeded == \E i \in CallsOf("clone_repository") : calls[i].ret = "ok"

C13_WorkingCopyGone == (Done /\ CloneSucceeded) => ~wc.exists

(***************************************************************************)
(* C13  (amended) Whenever clone_repository succeeded, process_issue calls *)
(* cleanup_repository exactly once before it returns, on every path; only  *)
(* the terminal label of the except clause may follow it; and the working  *)
(* copy no longer exists on return exactly when that removal did not       *)
(* raise.  When clone_repository did not succeed, cleanup_repository is    *)
(* not called.                                                             *)
(***************************************************************************)
C13_CleanupOnEveryPath ==
    Done =>
        /\ CloneSucceeded <=> (Count("cleanup_repository") = 1)
        /\ Count("cleanup_repository") <= 1
        /\ \A i \in CallsOf("cleanup_repository") :
              /\ wc.exists <=> (calls[i].ret = "exc")
              /\ \A j \in DOMAIN calls :
                    j > i => (calls[j].op = "add_label" /\ calls[j].arg = BOT_PROCESSED_LABEL)
              /\ \A j \in DOMAIN calls : calls[j].op \in LaterStepOps => j < i
        /\ ~CloneSucceeded => ~wc.exists

\* the remote branch call raised after the clone, and the working copy is gone
C13_Witness ==
    /\ Done
    /\ CloneSucceeded
    /\ \E i \in CallsOf("create_branch") : calls[i].ret = "exc"
    /\ ~wc.exists
    /\ result = "False"

(***************************************************************************)
(* C14  The steps of one process_issue call occur in the order lookup,     *)
(* analysis, analysis comment, suggested labels, clone, checkout,          *)
(* implementation, commit (with its retry), push, pull request: the step   *)
(* numbers of the calls never decrease, and each of lookup, analysis,      *)
(* analysis comment, clone, checkout, implementation, push and pull        *)
(* request is called at most once.  push_branch is called only after a     *)
(* commit_changes call returned success, and create_pull_request only      *)
(* after push_branch returned success.                                     *)
(***************************************************************************)
\* the step a gateway call belongs to, 0 for a call outside the ten steps
\* (repository labels, remote branch, the other comments, the terminal and
\* needs-more-info labels, cleanup)
StepOf(c) ==
    CASE c.op = "get_existing_analysis" -> 1
      [] c.op = "analyze_issue" -> 2
      [] c.op = "add_comment" /\ StartsWith(c.arg, ANALYSIS_MARKER) -> 3
      [] IsSuggestedAttempt(c) -> 4
      [] c.op = "clone_repository" -> 5
      [] c.op = "checkout_branch" -> 6
      [] c.op = "implement_fix" -> 7
      [] c.op \in {"commit_changes", "implement_fix_with_retry"} -> 8
      [] c.op = "push_branch" -> 9
      [] c.op = "create_pull_request" -> 10
      [] OTHER -> 0

SingleCallSteps == {1, 2, 3, 5, 6, 7, 9, 10}

\* the log only grows, call by call: the statement holds for all pairs of
\* calls when it holds, in every state, for the latest call against the
\* earlier ones
C14_StepOrder ==
    calls # <<>> =>
        LET j == Len(calls)
            last == calls[j]
            step == StepOf(last)
        IN  /\ step > 0 =>
                  \A i \in 1..(j - 1) :
                      /\ StepOf(calls[i]) <= step
                      /\ StepOf(calls[i]) \in SingleCallSteps => StepOf(calls[i]) < step
            /\ last.op = "push_branch" =>
                  \E i \in CallsOf("commit_changes") : i < j /\ calls[i].ret = "ok"
            /\ last.op = "create_pull_request" =>
                  \E i \in CallsOf("push_branch") : i < j /\ calls[i].ret = "ok"
            /\ last.op = "commit_changes" =>
                  \E i \in CallsOf("implement_fix") : i < j /\ calls[i].ret = "content"

\* all ten steps were taken, in order
C14_Witness ==
    /\ Done
    /\ {StepOf(calls[i]) : i \in DOMAIN calls} \ {0} = 1..10
    /\ result = "True"

(***************************************************************************)
(* Vocabulary of the properties of a run.                                  *)
(***************************************************************************)
RunOver == main_pc = "exit"

RunCallsOf(op) == {i \in DOMAIN run_log : run_log[i].op = op}
RunCount(op) == Cardinality(RunCallsOf(op))

Validated == \E i \in RunCallsOf("validate") : run_log[i].ret = "ok"
Authenticated == \E i \in RunCallsOf("authenticate") : run_log[i].ret = "ok"

\* the repositories process_repository was called for, in call order
IsRepositoryCall(c) == c.op = "process_repository"
Visited ==
    LET made == SelectSeq(run_log, IsRepositoryCall)
    IN  [i \in 1..Len(made) |-> made[i].repo]

\* the operations that process a repository or an issue
ProcessingOps ==
    {"handlers", "start", "stop", "process_repository", "get_unprocessed_issues",
     "process_issue", "process_issue_return"}

(***************************************************************************)
(* C15  At most one process_issue invocation is in progress at any moment. *)
(* Every call of process_issue is followed at once by its own return:      *)
(* no other call of process_issue, no process_repository and no listing    *)
(* comes between; an invocation is in progress exactly while               *)
(* process_repository awaits it; so no two invocations in progress share   *)
(* the working copy of a repository.                                       *)
(***************************************************************************)
C15_OneIssueAtATime ==
    /\ Cardinality(active) <= 1
    /\ (active # {}) <=> (main_pc = "in_issue")
    /\ \A a, b \in active : a.repo = b.repo => a = b
    /\ (active # {}) <=> (run_log # <<>> /\ run_log[Len(run_log)].op = "process_issue")
    /\ \A i \in RunCallsOf("process_issue") :
          /\ i = Len(run_log) =>
                active = {[repo |-> run_log[i].repo, number |-> run_log[i].number]}
          /\ i < Len(run_log) =>
                /\ run_log[i + 1].op = "process_issue_return"
                /\ run_log[i + 1].repo = run_log[i].repo
                /\ run_log[i + 1].number = run_log[i].number
    /\ \A i \in RunCallsOf("process_issue_return") :
          i > 1 /\ run_log[i - 1].op = "process_issue"

\* two repositories with two issues each were processed, one after another
C15_Witness ==
    /\ RunOver
    /\ RunCount("process_issue_return") = 4
    /\ Len(Visited) = 2
    /\ Visited[1] # Visited[2]
    /\ active = {}

(***************************************************************************)
(* C16  process_repository is called for the stripped non-empty entries    *)
(* of the configured list, in list order, once per entry: the calls made   *)
(* so far are a prefix of that list at any moment, and the whole list      *)
(* once main has left its loop, whatever faults the repositories raised.   *)
(***************************************************************************)
LoopEntered == \E i \in RunCallsOf("start") : run_log[i].ret = "ok"

C16_EveryRepositoryOnce ==
    /\ IsPrefix(Visited, StrippedNonEmpty(config.repos))
    /\ (LoopEntered /\ main_pc \in {"stop", "exit"}) =>
          Visited = StrippedNonEmpty(config.repos)

\* listing the first repository raised, and the second was still processed
C16_Witness ==
    /\ RunOver
    /\ Len(Visited) = 2
    /\ \E i \in RunCallsOf("get_unprocessed_issues") :
          /\ run_log[i].repo = Visited[1]
          /\ run_log[i].ret = "exc"
    /\ \E i \in RunCallsOf("process_issue_return") : run_log[i].repo = Visited[2]

(***************************************************************************)
(* C17  In every run that passed configuration validation and forge        *)
(* authentication, the assistant client is started exactly once and        *)
(* stopped exactly once, the stop being the last call of the run.          *)
(***************************************************************************)
C17_StartedAndStoppedOnce ==
    (RunOver /\ Validated /\ Authenticated) =>
        /\ RunCount("start") = 1
        /\ RunCount("stop") = 1
        /\ run_log[Len(run_log)].op = "stop"
        /\ RunCount("authenticate") = 1

\* C17 for the runs that reach the try of main: the rest of the statement
C17_StopAfterStart ==
    /\ RunCount("start") <= 1
    /\ RunCount("stop") <= 1
    /\ RunCount("authenticate") <= 1
    /\ (RunOver /\ RunCount("start") = 1) =>
          /\ RunCount("stop") = 1
          /\ run_log[Len(run_log)].op = "stop"

(***************************************************************************)
(* C18  When the configuration has an error (no credentials, the private   *)
(* key file of the App missing, no repository, an entry that is not of     *)
(* the form owner/name) or the authentication fails, main ends with        *)
(* result 1 right after that step: the assistant client is never created   *)
(* or started, no handler is built, no repository is listed and no issue   *)
(* is processed.                                                           *)
(***************************************************************************)
ConfigHasError(cfg) ==
    \/ cfg.auth \in {"none", "app_nokey"}
    \/ \A i \in DOMAIN cfg.repos : cfg.repos[i] = <<>>
    \/ \E i \in DOMAIN cfg.repos :
          cfg.repos[i] # <<>> /\ <<"/">> \notin {<<cfg.repos[i][k]>> : k \in DOMAIN cfg.repos[i]}

AuthenticationFailed == \E i \in RunCallsOf("authenticate") : run_log[i].ret = "fail"

NothingProcessed ==
    /\ \A i \in DOMAIN run_log : run_log[i].op \notin ProcessingOps
    /\ ~client
    /\ client_state = "new"
    /\ \A n \in RepoNames : ~tracker[n].read
    /\ active = {}

C18_ConfigOrAuthFailure ==
    ((ConfigHasError(config) /\ main_pc # "validate") \/ AuthenticationFailed) =>
        /\ RunOver
        /\ main_result = "1"
        /\ NothingProcessed
        /\ ConfigHasError(config) => run_log = <<RunCall("validate", <<>>, 0, "errors")>>

\* the configuration is valid and the forge refuses the credentials
C18_Witness ==
    /\ RunOver
    /\ ~ConfigHasError(config)
    /\ AuthenticationFailed
    /\ main_result = "1"
    /\ Len(run_log) = 2

(***************************************************************************)
(* C19  Once configuration validation and forge authentication have        *)
(* succeeded, main ends with result 0: no later fault leaves main as an    *)
(* exception.                                                              *)
(***************************************************************************)
C19_ResultZeroAfterAuthentication ==
    (RunOver /\ Validated /\ Authenticated) => main_result = "0"

(***************************************************************************)
(* C20  When DISABLE_COPILOT is set, the run does not start the assistant  *)
(* client (and so no process_issue call can reach the assistant).          *)
(***************************************************************************)
C20_DisabledAssistantNotStarted ==
    config.disable_copilot =>
        /\ RunCallsOf("start") = {}
        /\ ~client
        /\ client_state = "new"

(***************************************************************************)
(* The parsing rule in words: the labels of a text are, in order, the      *)
(* label texts of its bullet lines that stand in a suggested-labels        *)
(* section.                                                                *)
(***************************************************************************)
IsLabelsHeading(line) ==
    Contains(line, LABELS_HEADING) \/ Contains(line, LABELS_HEADING_NOSPACE)

IsHeading(line) == StartsWith(line, <<"#", "#">>)

IsBullet(line) == StartsWith(Strip(line), <<"-">>)

\* line i stands after a suggested-labels heading, with no heading between
InLabelsSection(lines, i) ==
    \E h \in 1..(i - 1) :
        /\ IsLabelsHeading(lines[h])
        /\ \A k \in (h + 1)..i : ~IsHeading(lines[k])

\* the bullet text without '**', cut at the first full-width parenthesis or
\* else at the first parenthesis, trimmed
LabelText(line) ==
    LET text == Replace(Strip(Drop(Strip(line), 2)), <<"*", "*">>, <<>>)
    IN  IF Contains(text, <<"FW(">>) THEN Strip(Before(text, <<"FW(">>))
        ELSE IF Contains(text, <<"(">>) THEN Strip(Before(text, <<"(">>))
        ELSE Strip(text)

ExpectedLabels(text) ==
    LET lines == SplitLines(text)
        Yields(i) == /\ IsBullet(lines[i])
                     /\ InLabelsSection(lines, i)
                     /\ LabelText(lines[i]) # <<>>
        picked == SelectSeq([i \in 1..Len(lines) |-> i], Yields)
    IN  [k \in 1..Len(picked) |-> LabelText(lines[picked[k]])]

\* C21: for any analysis text, the suggested labels parsed from it -- by
\* analyze_issue from the answer, by get_existing_analysis from the stored
\* comment -- are, in order, one label per bullet line of a suggested-labels
\* section: the bullet text with every '**' removed, cut at the first
\* full-width or else the first parenthesis, and trimmed, empty ones dropped.
C21_LabelsAsDescribed ==
    /\ pc \in {"store", "reread", "reread_done"}
            => analysis_result.suggested_labels = ExpectedLabels(analysis_result.analysis)
    /\ (pc = "reread_done" /\ existing_analysis.found)
            => existing_analysis.view.suggested_labels
                    = ExpectedLabels(existing_analysis.view.analysis)

(***************************************************************************)
(* Vocabulary of the listing.                                              *)
(***************************************************************************)
\* process_repository has just listed the issues (the listing did not
\* raise): it is about to call process_issue or has returned to main
JustListed ==
    /\ main_pc \in {"issue", "loop"}
    /\ run_log # <<>>
    /\ run_log[Len(run_log)].op = "get_unprocessed_issues"
    /\ run_log[Len(run_log)].ret # "exc"

ListedRepo == run_log[Len(run_log)].repo

\* the open issues of a repository that are no pull requests and lack the
\* terminal label, by number, in the forge's order
Unprocessed(name) ==
    LET lst == tracker[name].issues
        Qualifies(i) == /\ lst[i].state = "open"
                        /\ ~lst[i].pull_request
                        /\ BOT_PROCESSED_LABEL \notin lst[i].labels
        picked == SelectSeq([i \in 1..Len(lst) |-> i], Qualifies)
    IN  [k \in 1..Len(picked) |-> lst[picked[k]].number]

\* what process_repository holds right after the listing
Fetched == IF main_pc = "issue" THEN issues ELSE <<>>

\* process_issue is only ever invoked right after a listing or after the
\* return of the call before it, for the same repository
InvokedFromTheList ==
    \A i \in RunCallsOf("process_issue") :
        /\ i > 1
        /\ run_log[i - 1].repo = run_log[i].repo
        /\ \/ run_log[i - 1].op = "get_unprocessed_issues" /\ run_log[i - 1].ret = "ok"
           \/ run_log[i - 1].op = "process_issue_return"

\* the forge's issues change only when a process_issue call returns (the
\* listing merely reads them)
OnlyProcessIssueMutates ==
    tracker' # tracker =>
        \/ main_pc = "in_issue"
        \/ /\ main_pc = "list"
           /\ ~tracker[repos[repo_idx]].read
           /\ \A n \in RepoNames \ {repos[repo_idx]} : tracker'[n] = tracker[n]

\* C22 as stated: get_unprocessed_issues returns exactly the open issues of
\* the repository that are no pull requests and lack the label, whatever
\* the forge answered.
C22_ExactlyTheUnprocessed ==
    JustListed => Fetched = Unprocessed(ListedRepo)

\* C22, amended: when the forge answers the listing, get_unprocessed_issues
\* returns exactly the open issues that are no pull requests and lack the
\* label; when the forge call fails with a GithubException it returns the
\* empty list.  On an empty list process_repository returns: process_issue
\* is invoked only for listed issues, and nothing but a process_issue call
\* changes the forge.
C22_ExactlyTheUnprocessedWhenAnswered ==
    /\ [](/\ JustListed =>
                /\ run_log[Len(run_log)].ret = "ok" => Fetched = Unprocessed(ListedRepo)
                /\ run_log[Len(run_log)].ret = "gh" => Fetched = <<>>
                /\ active = {}
          /\ InvokedFromTheList)
    /\ [][OnlyProcessIssueMutates]_vars

\* a pull request and an open issue: only the issue is listed
C22_Witness ==
    /\ JustListed
    /\ run_log[Len(run_log)].ret = "ok"
    /\ Len(tracker[ListedRepo].issues) = 2
    /\ tracker[ListedRepo].issues[1].pull_request
    /\ Fetched = <<2>>

(***************************************************************************)
(* Vocabulary of the runs.                                                 *)
(***************************************************************************)
\* process_issue is being executed for issue n of repository r
Processing(r, n) == [repo |-> r, number |-> n] \in active

\* issue n of repository r carries the terminal label on the forge
Marked(r, n) ==
    /\ n <= Len(tracker[r].issues)
    /\ BOT_PROCESSED_LABEL \in tracker[r].issues[n].labels

\* C23 as stated: across any sequence of runs no issue is retried forever:
\* every issue that a run processes eventually carries the terminal label,
\* and no run passes an issue that carries it to process_issue.
C23_NoIssueRetriedForever ==
    \A r \in RepoNames, n \in 1..MaxIssues :
        /\ Processing(r, n) ~> Marked(r, n)
        /\ [](Marked(r, n) => ~Processing(r, n))

\* C23, amended: no run passes an issue that carries the terminal label to
\* process_issue, and the label, once attached, stays; a run without
\* gateway fault leaves every issue it processed with the label.  (An issue
\* whose label the forge refuses in every run is processed by every run.)
C23_MarkedIssueNeverProcessedAgain ==
    /\ [](\A r \in RepoNames, n \in 1..MaxIssues :
            /\ Marked(r, n) => ~Processing(r, n)
            /\ (run_faults = 0 /\ \E i \in RunCallsOf("process_issue_return") :
                                     run_log[i].repo = r /\ run_log[i].number = n)
                    => Marked(r, n))
    /\ [][\A r \in RepoNames, n \in 1..MaxIssues :
            (tracker[r].read /\ Marked(r, n)) => Marked(r, n)']_vars

\* a later run finds issue 2 of o/a, which an earlier run marked, and
\* does not process it
C23_Witness ==
    /\ RunOver
    /\ Marked(<<"o", "/", "a">>, 2)
    /\ \E i \in RunCallsOf("get_unprocessed_issues") :
            run_log[i].repo = <<"o", "/", "a">> /\ run_log[i].ret = "ok"
    /\ \A i \in DOMAIN run_log :
            run_log[i].op \in {"process_issue", "process_issue_return"}
                => run_log[i].number # 2

(***************************************************************************)
(* Vocabulary of the stored analysis.                                      *)
(***************************************************************************)
\* the comments of the history that bear the analysis header
MarkerComments == {i \in DOMAIN History0 : Contains(History0[i].body, ANALYSIS_MARKER)}

MostRecent(S) == CHOOSE i \in S : \A j \in S : j <= i

\* C24: when several comments of the history bear the analysis header,
\* get_existing_analysis reconstructs the analysis text and the suggested
\* labels from the most recent of them.
C24_MostRecentAnalysisUsed ==
    (LookupOk /\ Cardinality(MarkerComments) >= 2) =>
        /\ existing_analysis.found
        /\ existing_analysis.view.analysis
                = ExistingAnalysisOf(History0[MostRecent(MarkerComments)].body).analysis
        /\ existing_analysis.view.suggested_labels
                = ExistingAnalysisOf(History0[MostRecent(MarkerComments)].body).suggested_labels

\* C25: a comment of another author that bears the analysis header is never
\* taken as the stored analysis: when the bot wrote none of the marker
\* comments, get_existing_analysis finds nothing, and process_issue applies
\* suggested labels only after it called analyze_issue.
C25_OnlyBotAuthoredAnalysis ==
    (LookupOk /\ \A i \in DOMAIN History0 : ~IsBotAnalysis(History0[i])) =>
        /\ ~existing_analysis.found
        /\ SuggestedAttempts # <<>> => Count("analyze_issue") = 1

(***************************************************************************)
(* Vocabulary of the commit attempts.                                      *)
(***************************************************************************)
RetryCalls == CallsOf("implement_fix_with_retry")

\* the retry call ended without a usable answer
RetryFailed == \E i \in RetryCalls : calls[i].ret \in {"empty", "timeout", "error"}

\* C26: the retry implementation call is made if and only if the first
\* commit attempt found zero staged changes: commit_changes returns false
\* only when nothing is staged, and a failure of staging or of the commit
\* command does not trigger the retry.
C26_RetryIffZeroStaged ==
    /\ \A i \in CallsOf("commit_changes") :
            calls[i].ret = "fail"
                => staged[Cardinality({j \in CallsOf("commit_changes") : j <= i})] = "zero"
    /\ RetryCalls # {} => staged[1] = "zero"
    /\ (staged # <<>> /\ staged[1] = "zero" /\ pc # "retry") => RetryCalls # {}

\* C27: the comment that no code change was necessary is posted only when
\* both commit attempts of the call staged zero changes; when the retry
\* call itself fails, process_issue does not post it.
C27_NoChangesCommentOnlyWhenNothingStaged ==
    /\ NoChangesCalls # {} => staged = <<"zero", "zero">>
    /\ RetryFailed => NoChangesCalls = {}

(***************************************************************************)
(* Vocabulary of the gates.                                                *)
(***************************************************************************)
\* the call is a gate of process_issue that failed: the analysis was not
\* completed (and did not signal insufficient information), the analysis
\* comment was not posted, the clone, the checkout, the first
\* implementation or the push failed
GateFailed(c) ==
    \/ c.op = "analyze_issue" /\ c.ret \in {"empty", "timeout", "error"}
    \/ c.op = "add_comment" /\ StartsWith(c.arg, ANALYSIS_MARKER) /\ c.ret = "gh"
    \/ c.op \in {"clone_repository", "checkout_branch", "push_branch"} /\ c.ret = "fail"
    \/ c.op = "implement_fix" /\ c.ret \in {"empty", "timeout", "error"}

\* what process_issue still does on its way out
IsExitCall(c) ==
    \/ c.op = "add_label" /\ c.arg = BOT_PROCESSED_LABEL
    \/ c.op = "cleanup_repository"

\* C28: when a gate fails, process_issue applies the terminal label (it
\* calls add_label for it, and the issue carries the label when no other
\* gateway call fails), returns false and invokes no operation of a later
\* step: after the failed gate it only tries the terminal label and removes
\* the working copy.
C28_FailedGateEndsTheCall ==
    \A i \in DOMAIN calls :
        GateFailed(calls[i]) =>
            /\ \A j \in (i + 1)..Len(calls) : IsExitCall(calls[j])
            /\ Done =>
                  /\ result = "False"
                  /\ \E j \in TerminalAttempts : j > i
                  /\ faults = 1 => BOT_PROCESSED_LABEL \in issue.labels

\* the analysis comment is refused: the terminal label is attached, nothing
\* else follows
C28_Witness ==
    /\ Done
    /\ result = "False"
    /\ faults = 1
    /\ \E i \in CallsOf("add_comment") :
            StartsWith(calls[i].arg, ANALYSIS_MARKER) /\ calls[i].ret = "gh"
    /\ BOT_PROCESSED_LABEL \in issue.labels
    /\ Count("clone_repository") = 0
    /\ SuggestedAttempts = <<>>

\* C29: after an insufficient-information halt, once the reporter has added
\* the requested information to the issue, a later run processes the issue
\* again: its get_unprocessed_issues call returns the issue.
C29_HaltedIssueProcessedAgain ==
    pc = "informed" => ListedAgain

\* C30: the outcome of the remote branch creation never changes the path of
\* process_issue: whether create_branch creates the branch, finds that it
\* exists already or fails (a forge error it reports as absent),
\* implement_fix is invoked next, with the task of the issue.
C30_BranchCreationNotFatal ==
    \A i \in CallsOf("create_branch") :
        calls[i].ret \in {"ok", "gh"} =>
            IF i = Len(calls) THEN pc = "implement"
            ELSE /\ calls[i + 1].op = "implement_fix"
                 /\ calls[i + 1].arg = issue_data.body

\* the branch was there already, and the call went on to a pull request
C30_Witness ==
    /\ Done
    /\ result = "True"
    /\ repo0.branch = "stale"
    /\ \E i \in CallsOf("create_branch") :
            calls[i].ret = "ok" /\ calls[i + 1].op = "implement_fix"

(***************************************************************************)
(* Vocabulary of the assistant calls.                                      *)
(***************************************************************************)
AssistantOps == {"analyze_issue", "implement_fix", "implement_fix_with_retry"}

AssistantCalls == {i \in DOMAIN calls : calls[i].op \in AssistantOps}

\* the exchange of the call ended without a usable answer
ExchangeFailed(c) == c.op \in AssistantOps /\ c.ret \in {"empty", "timeout", "error"}

IsNoChangesComment(c) == c.op = "add_comment" /\ c.arg = NO_CHANGES_COMMENT

\* C31: with a started assistant client, analyze_issue, implement_fix and
\* implement_fix_with_retry never raise: a timeout, an error or an empty
\* response yields completed = false with insufficient_info = false
\* (analyze) or success = false (implement), and process_issue takes the
\* failure path: it tries the terminal label (which the issue carries when
\* nothing else fails) and returns false.
C31_AssistantFailureIsNormalFailure ==
    /\ client => \A i \in AssistantCalls : calls[i].ret # "exc"
    /\ \A response \in ImplementResponses :
            response.kind # "content" =>
                /\ ~implement_fix(TRUE, response).exc
                /\ ~implement_fix(TRUE, response).success
                /\ ~implement_fix_with_retry(TRUE, response).exc
                /\ ~implement_fix_with_retry(TRUE, response).success
    /\ \A i \in AssistantCalls :
            ExchangeFailed(calls[i]) =>
                /\ calls[i].op = "analyze_issue" =>
                        ~analysis_result.completed /\ ~analysis_result.insufficient_info
                /\ calls[i].op = "implement_fix" => ~implementation_result.success
                /\ \A j \in (i + 1)..Len(calls) :
                        \/ IsExitCall(calls[j])
                        \/ calls[i].op = "implement_fix_with_retry" /\ IsNoChangesComment(calls[j])
                /\ Done =>
                      /\ result = "False"
                      /\ \E j \in TerminalAttempts : j > i
                      /\ faults = 1 => BOT_PROCESSED_LABEL \in issue.labels

\* the analysis timed out: the issue is marked and the call returned false
C31_Witness ==
    /\ Done
    /\ result = "False"
    /\ \E i \in CallsOf("analyze_issue") : calls[i].ret = "timeout"
    /\ analysis_result.analysis = TIMEOUT_TEXT
    /\ faults = 1
    /\ BOT_PROCESSED_LABEL \in issue.labels

(***************************************************************************)
(* Vocabulary of a visit of process_repository.                            *)
(***************************************************************************)
\* position of the latest listing in the log, 0 when there is none
LastListing ==
    IF RunCallsOf("get_unprocessed_issues") = {} THEN 0
    ELSE CHOOSE i \in RunCallsOf("get_unprocessed_issues") :
            \A j \in RunCallsOf("get_unprocessed_issues") : j <= i

\* the log of the visit that the latest listing opened
VisitLog == SubSeq(run_log, LastListing + 1, Len(run_log))

IsIssueCall(c) == c.op = "process_issue"
IsIssueReturn(c) == c.op = "process_issue_return"
IsTrueReturn(c) == c.op = "process_issue_return" /\ c.ret = "True"

\* the issue numbers the visit passed to process_issue, in call order
VisitCalls ==
    LET cs == SelectSeq(VisitLog, IsIssueCall)
    IN  [k \in 1..Len(cs) |-> cs[k].number]

\* the visit has called process_issue for its last issue and got the answer
VisitOver ==
    /\ VisitCalls # <<>>
    /\ main_pc \notin {"issue", "in_issue"}

\* C32: process_repository passes every issue of the fetched list to
\* process_issue exactly once, in list order, whatever the earlier calls
\* returned, and its success count is the number of calls that returned
\* true.
C32_EveryListedIssueOnce ==
    (LastListing > 0 /\ VisitCalls # <<>>) =>
        /\ IsPrefix(VisitCalls, issues)
        /\ main_pc = "issue" => Len(VisitCalls) = issue_idx - 1
        /\ main_pc = "in_issue" => Len(VisitCalls) = issue_idx
        /\ VisitOver => VisitCalls = issues
        /\ \A k, l \in DOMAIN issues : issues[k] = issues[l] => k = l
        /\ Len(SelectSeq(VisitLog, IsIssueReturn))
                = Len(VisitCalls) - (IF main_pc = "in_issue" THEN 1 ELSE 0)
        /\ success_count = Len(SelectSeq(VisitLog, IsTrueReturn))

\* two issues were listed; the first call returned false, the second true
C32_Witness ==
    /\ VisitOver
    /\ issues = <<1, 2>>
    /\ VisitCalls = <<1, 2>>
    /\ success_count = 1
    /\ \E i \in RunCallsOf("process_issue_return") :
            run_log[i].number = 1 /\ run_log[i].ret = "False"

(***************************************************************************)
(* C36: every assistant session created by analyze_issue, implement_fix or *)
(* implement_fix_with_retry has been destroyed by the time that call       *)
(* returns, on every path including timeout and error of the exchange: no  *)
(* session stays open across calls.                                        *)
(***************************************************************************)
C36_NoSessionStaysOpen == sessions = 0

(***************************************************************************)
(* C37: after process_issue returns, a remote branch fix/issue-<number>    *)
(* created by that call exists only if the call pushed a fix commit to it: *)
(* no failing path leaves behind a remote branch without a fix commit.     *)
(***************************************************************************)
Returned == pc \in {"done", "informed"}

BranchCreatedByTheCall == repo0.branch = "none" /\ repo.branch # "none"

C37_NoBranchWithoutFixCommit ==
    Returned /\ BranchCreatedByTheCall => repo.branch = "pushed"

(***************************************************************************)
(* C35: on the reuse path (existing analysis found, no new user comments)  *)
(* process_issue posts no analysis comment, does not fetch the repository  *)
(* label list, leaves the task body equal to the issue body, and proceeds  *)
(* directly to label application and clone; the only comments it can post  *)
(* are the no-changes comment and the PR-link comment.                     *)
(***************************************************************************)
ReusePath ==
    /\ existing_analysis.found
    /\ ~DictGet(existing_analysis.view, "has_new_user_comments", FALSE)

CommentsPosted == {calls[i].arg : i \in {j \in DOMAIN calls : calls[j].op = "add_comment"}}

C35_ReusePathFrame ==
    ReusePath =>
        /\ \A i \in DOMAIN calls :
              calls[i].op \notin {"get_repository_labels", "analyze_issue"}
        /\ CommentsPosted \subseteq {NO_CHANGES_COMMENT, PrLinkComment(<<"pr_url">>)}
        /\ issue_data.body = issue0.body
        /\ calls[1].op = "get_existing_analysis"
        /\ Len(calls) >= 2 => calls[2].op \in {"add_label", "clone_repository"}
        /\ analysis_text = existing_analysis.view.analysis
        /\ suggested_labels = existing_analysis.view.suggested_labels

\* a reusing call has returned after it posted the link of its pull request
C35_Witness ==
    /\ ReusePath
    /\ pc = "done"
    /\ result = "True"
    /\ PrLinkComment(<<"pr_url">>) \in CommentsPosted
    /\ \E i \in DOMAIN calls : calls[i].op = "add_label" /\ calls[i].arg # BOT_PROCESSED_LABEL

(***************************************************************************)
(* C34: storing and re-reading an analysis is lossless: the analysis text  *)
(* and the suggested labels that get_existing_analysis reconstructs from   *)
(* the analysis comment posted by process_issue equal (up to surrounding   *)
(* whitespace) the ones analyze_issue returned.                            *)
(***************************************************************************)
C34_StoreRereadLossless ==
    pc = "reread_done" =>
        /\ existing_analysis.found
        /\ Strip(existing_analysis.view.analysis) = Strip(analysis_text)
        /\ existing_analysis.view.suggested_labels = suggested_labels

(***************************************************************************)
(* C33: two runs executing concurrently over the same repository are not   *)
(* protected against each other: a run is handed every issue that lacks    *)
(* the terminal label, whatever the other run is doing with it, and a      *)
(* clone replaces the directory at the clone path, whoever works in it.    *)
(* So both runs can fetch the same unmarked issue and process it (two      *)
(* analysis comments, two implementation attempts), and one run's clone    *)
(* can wipe the working copy the other run is using.                       *)
(***************************************************************************)
FreshClone == [exists |-> TRUE, dirty |-> FALSE, commits |-> 0]

ListsWhateverThePeerDoes(r) ==
    procs[r].pc = "list" /\ procs'[r].pc # "list" =>
        (procs'[r].pc = "lookup" <=> BOT_PROCESSED_LABEL \notin issue.labels)

ClonesWhateverThePeerDoes(r) ==
    procs[r].pc = "clone" /\ procs'[r].pc # "clone" =>
        /\ wc' = FreshClone
        /\ procs'[r].pc = "checkout"

C33_RunsNotProtected ==
    [][\A r \in Runs : ListsWhateverThePeerDoes(r) /\ ClonesWhateverThePeerDoes(r)]_vars

BotAnalysisComments ==
    {i \in DOMAIN issue.comments : issue.comments[i].body = AnalysisComment(TextLabelsBug)}

\* both runs went through the issue: two analysis comments, two
\* implementation attempts, and a clone while the other run was at work
C33_Witness ==
    /\ \A r \in Runs : procs[r].pc = "end"
    /\ Cardinality(BotAnalysisComments) = 2
    /\ \A r \in Runs : {"analyze_issue", "add_comment", "implement_fix"} \subseteq procs[r].ops
    /\ \E r \in Runs : procs[r].wiped_peer

====
